---- MODULE Spec2Model ----
(***************************************************************************)
(* Task management back end: the task / attachment rule engine.            *)
(*                                                                         *)
(* The repository holds two implementations of the same rules:             *)
(*   - the application rules (services/task/taskRules.ts and               *)
(*     services/taskAttachment/taskAttachmentRules.ts), which keep tasks   *)
(*     and attachments in the arrays `tasks` and `attachments`;            *)
(*   - the stored procedures (database/functional/task/*.sql), which keep  *)
(*     them in the tables task, taskAttachment and subtask.                *)
(* `layer` says which of the two serves the requests of a behaviour.       *)
(*                                                                         *)
(* The application rules declare their arrays in the body of each rule     *)
(* (`const tasks: any[] = []`) as a stand-in for storage; the model keeps  *)
(* one array per entity across the calls, which is the storage the rules   *)
(* search, push to and splice.                                             *)
(*                                                                         *)
(* Values.  An optional parameter is Undefined, Null or Some(v).  A string *)
(* is Str(lead, core, trail): the number of leading blanks, the length of  *)
(* the text between the first and the last non-blank character, and the    *)
(* number of trailing blanks (a blank-only string has core = 0 and all its *)
(* blanks counted as leading).  A description is known by its length.  An  *)
(* instant is a number of ticks, TicksPerDay of them in a day.             *)
(***************************************************************************)
EXTENDS Integers, Sequences, FiniteSets, TLC

VARIABLES
  layer,           \* "app": the application rules; "db": the stored procedures
  now,             \* the clock (new Date(), GETUTCDATE())
  tasks,           \* application rules: the tasks array
  attachments,     \* application rules: the attachments array
  task,            \* table functional.task
  taskAttachment,  \* table functional.taskAttachment
  subtask,         \* table functional.subtask
  identity,        \* the IDENTITY counters of the three tables
  sessions,        \* stored procedures in flight, between their checks and their transaction
  last             \* the request that completed last, and its outcome

vars == <<layer, now, tasks, attachments, task, taskAttachment, subtask,
          identity, sessions, last>>

----------------------------------------------------------------------------
\* Bounds of the model

MaxTasks == 1
MaxAttach == 1
MaxSubtasks == 1
MaxTime == 5
TicksPerDay == 2
NumSessions == 2

----------------------------------------------------------------------------
\* Program constants

TitleMinLength == 3
TitleMaxLength == 100
DescriptionMaxLength == 1000
MaxAttachmentsPerTask == 5
MaxFileSize == 5242880
StatusDraft == 0
StatusPending == 1
PriorityMedium == 1

----------------------------------------------------------------------------
\* Values

Undefined == <<"undefined">>
Null == <<"null">>
Some(v) == <<"some", v>>
IsSome(o) == Len(o) = 2
Get(o) == o[2]

Str(lead, core, trail) == <<lead, core, trail>>
IsStr(s) == Len(s) = 3
\* String.prototype.length
StrLen(s) == s[1] + s[2] + s[3]
\* String.prototype.trim
Trim(s) == Str(0, s[2], 0)

\* Date.prototype.setHours(0, 0, 0, 0): the start of the instant's day
StartOfDay(t) == t - (t % TicksPerDay)

----------------------------------------------------------------------------
\* Array helpers

\* Array.prototype.findIndex: the first index whose element satisfies P, 0 if none
FindIndex(arr, P(_)) ==
  IF \E i \in 1..Len(arr) : P(arr[i])
  THEN CHOOSE i \in 1..Len(arr) : P(arr[i]) /\ \A j \in 1..(i - 1) : ~P(arr[j])
  ELSE 0

\* Array.prototype.splice(index, 1)
Splice(arr, index) ==
  [i \in 1..(Len(arr) - 1) |-> IF i < index THEN arr[i] ELSE arr[i + 1]]

----------------------------------------------------------------------------
\* Application rules: taskCreate

\* @validation Title required / Title length
createTitleError(title) ==
  IF ~IsStr(title) \/ StrLen(title) = 0 \/ StrLen(Trim(title)) = 0 THEN "titleRequired"
  ELSE IF StrLen(Trim(title)) < TitleMinLength THEN "titleTooShort"
  ELSE IF StrLen(title) > TitleMaxLength THEN "titleTooLong"
  ELSE "ok"

\* @validation Description length: params.description && params.description.length > 1000
descriptionError(description) ==
  IF IsSome(description) /\ Get(description) > 0 /\ Get(description) > DescriptionMaxLength
  THEN "descriptionTooLong"
  ELSE "ok"

\* The instants compared as they are, time of day included
dueDateError_Instant(dueDate, t) ==
  IF IsSome(dueDate) /\ Get(dueDate) < t THEN "dueDateInPast" ELSE "ok"

\* @validation Due date: both instants are cut to the start of their day
dueDateError(dueDate, t) ==
  IF IsSome(dueDate) /\ StartOfDay(Get(dueDate)) < StartOfDay(t)
  THEN "dueDateInPast"
  ELSE "ok"

RecurrenceTypes == {"daily", "weekly", "monthly", "yearly"}
RecurrenceIntervalMax == 365

\* @validation Recurrence: read from params.recurrenceType, .recurrenceInterval, .recurrenceEndDate
recurrenceError(params, t) ==
  IF IsSome(params.recurrenceType) /\ Get(params.recurrenceType) # ""
  THEN IF Get(params.recurrenceType) \notin RecurrenceTypes THEN "invalidRecurrenceType"
       ELSE IF \/ ~IsSome(params.recurrenceInterval)
               \/ Get(params.recurrenceInterval) = 0
               \/ Get(params.recurrenceInterval) < 1
               \/ Get(params.recurrenceInterval) > RecurrenceIntervalMax
            THEN "invalidRecurrenceInterval"
       ELSE IF /\ IsSome(params.recurrenceEndDate)
               /\ StartOfDay(Get(params.recurrenceEndDate)) <= StartOfDay(t)
            THEN "invalidRecurrenceEndDate"
       ELSE "ok"
  ELSE "ok"

\* The checks of taskCreate in their order; the first that fails is thrown
taskCreateError(params, t) ==
  IF createTitleError(params.title) # "ok" THEN createTitleError(params.title)
  ELSE IF descriptionError(params.description) # "ok" THEN descriptionError(params.description)
  ELSE IF dueDateError(params.dueDate, t) # "ok" THEN dueDateError(params.dueDate, t)
  ELSE recurrenceError(params, t)

\* const status = params.isDraft ? 0 : 1
\* Every new task Pending, whatever isDraft
createStatus_AlwaysPending(isDraft) == StatusPending

createStatus(isDraft) ==
  IF IsSome(isDraft) /\ Get(isDraft) THEN StatusDraft ELSE StatusPending

\* x || null
OrNull(o, truthy) == IF IsSome(o) /\ truthy THEN o ELSE Null

\* The task object taskCreate pushes
newTask(params, store, t) ==
  [ idTask |-> Len(store) + 1,
    idAccount |-> params.idAccount,
    idUser |-> params.idUser,
    title |-> Trim(params.title),
    description |-> OrNull(params.description, IsSome(params.description) /\ Get(params.description) > 0),
    dueDate |-> OrNull(params.dueDate, TRUE),
    priority |-> IF IsSome(params.priority) THEN Get(params.priority) ELSE PriorityMedium,
    status |-> createStatus(params.isDraft),
    isDraft |-> IF IsSome(params.isDraft) THEN Get(params.isDraft) ELSE FALSE,
    recurrenceType |-> OrNull(params.recurrenceType,
                              IsSome(params.recurrenceType) /\ Get(params.recurrenceType) # ""),
    recurrenceInterval |-> OrNull(params.recurrenceInterval,
                                  IsSome(params.recurrenceInterval) /\ Get(params.recurrenceInterval) # 0),
    recurrenceEndDate |-> OrNull(params.recurrenceEndDate, TRUE),
    dateCreated |-> t,
    dateModified |-> t,
    deleted |-> FALSE ]

\* A request whose task is already stored answered with that task's identifier
taskCreate_Idempotent(params, store, t) ==
  LET err == taskCreateError(params, t)
      same == {i \in 1..Len(store) :
                 [newTask(params, store, t) EXCEPT !.idTask = i, !.dateCreated = store[i].dateCreated,
                                                   !.dateModified = store[i].dateModified] = store[i]}
  IN IF err # "ok" THEN [err |-> err, tasks |-> store, ret |-> Null]
     ELSE IF same # {} THEN [err |-> "ok", tasks |-> store, ret |-> Some(CHOOSE i \in same : TRUE)]
     ELSE [err |-> "ok",
           tasks |-> Append(store, newTask(params, store, t)),
           ret |-> Some(Len(store) + 1)]

\* taskCreate: [err, tasks, ret]
taskCreate(params, store, t) ==
  LET err == taskCreateError(params, t) IN
  IF err # "ok"
  THEN [err |-> err, tasks |-> store, ret |-> Null]
  ELSE [err |-> "ok",
        tasks |-> Append(store, newTask(params, store, t)),
        ret |-> Some(Len(store) + 1)]

----------------------------------------------------------------------------
\* Application rules: taskList, taskGet, taskUpdate, taskDelete

\* The predicate of tasks.find / tasks.findIndex in taskGet, taskUpdate, taskDelete
\* and taskAttachmentCreate
\* The predicate without its deleted conjunct
taskMatches_IgnoreDeleted(t, idTask, idAccount) ==
  t.idTask = idTask /\ t.idAccount = idAccount

taskMatches(t, idTask, idAccount) ==
  t.idTask = idTask /\ t.idAccount = idAccount /\ t.deleted = FALSE

findTask(store, idTask, idAccount) ==
  LET P(t) == taskMatches(t, idTask, idAccount) IN FindIndex(store, P)

\* taskList, the filters: account, user and deleted flag, then status and isDraft when given
listFilter(t, params) ==
  /\ t.idAccount = params.idAccount
  /\ IsSome(params.idUser) /\ t.idUser = Get(params.idUser)
  /\ t.deleted = FALSE
  /\ (IsSome(params.status) => t.status = Get(params.status))
  /\ (IsSome(params.isDraft) => t.isDraft = Get(params.isDraft))

taskListFiltered(params, store) ==
  LET P(t) == listFilter(t, params) IN SelectSeq(store, P)

\* @rule BR-003: task.dueDate && new Date(task.dueDate) <= tomorrow &&
\* task.status !== 3 && task.status !== 4, with tomorrow = now + 24h; a task
\* without due date gets the null of its dueDate
isUrgent(tk, t) ==
  IF tk.dueDate = Null THEN Null
  ELSE Some(Get(tk.dueDate) <= t + TicksPerDay /\ tk.status # 3 /\ tk.status # 4)

\* The summary taskList maps a task to
taskSummary(tk, t) ==
  [ idTask |-> tk.idTask,
    title |-> tk.title,
    description |-> tk.description,
    dueDate |-> tk.dueDate,
    priority |-> tk.priority,
    status |-> tk.status,
    isDraft |-> tk.isDraft,
    isUrgent |-> isUrgent(tk, t),
    dateCreated |-> tk.dateCreated ]

\* @rule BR-021: the comparison function handed to result.sort
compareTasks(a, b) ==
  IF a.isDraft # b.isDraft THEN (IF b.isDraft THEN 1 ELSE -1)
  ELSE IF a.priority # b.priority THEN b.priority - a.priority
  ELSE IF /\ a.dueDate # Null /\ b.dueDate # Null
          /\ Get(a.dueDate) - Get(b.dueDate) # 0
       THEN Get(a.dueDate) - Get(b.dueDate)
  ELSE b.dateCreated - a.dateCreated

\* Array.prototype.sort as the runtime (V8) runs it on an array shorter than 32:
\* the leading run is found and, if descending, reversed; the other elements are
\* placed by binary insertion.

RECURSIVE RunEnd(_, _, _)
\* The last index of the run that starts at 1, idx being the next index to test
RunEnd(arr, idx, descending) ==
  IF idx > Len(arr) THEN Len(arr)
  ELSE LET order == compareTasks(arr[idx], arr[idx - 1]) IN
       IF descending
       THEN IF order >= 0 THEN idx - 1 ELSE RunEnd(arr, idx + 1, descending)
       ELSE IF order < 0 THEN idx - 1 ELSE RunEnd(arr, idx + 1, descending)

ReverseRange(arr, n) == [i \in 1..Len(arr) |-> IF i <= n THEN arr[n + 1 - i] ELSE arr[i]]

RECURSIVE InsertionPoint(_, _, _, _)
\* The binary search of the insertion: the place of pivot in arr[left..right-1]
InsertionPoint(arr, pivot, left, right) ==
  IF left >= right THEN left
  ELSE LET mid == left + ((right - left) \div 2) IN
       IF compareTasks(pivot, arr[mid]) < 0
       THEN InsertionPoint(arr, pivot, left, mid)
       ELSE InsertionPoint(arr, pivot, mid + 1, right)

\* arr with its element at index start moved to index pos <= start
MoveTo(arr, start, pos) ==
  [i \in 1..Len(arr) |->
     IF i < pos \/ i > start THEN arr[i]
     ELSE IF i = pos THEN arr[start] ELSE arr[i - 1]]

RECURSIVE BinaryInsertionSort(_, _)
BinaryInsertionSort(arr, start) ==
  IF start > Len(arr) THEN arr
  ELSE BinaryInsertionSort(MoveTo(arr, start, InsertionPoint(arr, arr[start], 1, start)), start + 1)

sortTasks(arr) ==
  IF Len(arr) < 2 THEN arr
  ELSE LET descending == compareTasks(arr[2], arr[1]) < 0
           n == RunEnd(arr, 3, descending)
           run == IF descending THEN ReverseRange(arr, n) ELSE arr
       IN BinaryInsertionSort(run, n + 1)

\* taskList: the summaries of the filtered tasks, sorted
taskList(params, store, t) ==
  LET f == taskListFiltered(params, store) IN
  sortTasks([i \in 1..Len(f) |-> taskSummary(f[i], t)])

\* The predicate of attachments.filter in taskGet and taskAttachmentCreate
attachmentOfTask(a, idTask, idAccount) ==
  a.idTask = idTask /\ a.idAccount = idAccount

taskAttachmentsOf(atts, idTask, idAccount) ==
  LET P(a) == attachmentOfTask(a, idTask, idAccount) IN SelectSeq(atts, P)

\* taskGet: [err, ret]
taskGet(params, store, atts) ==
  LET i == findTask(store, params.idTask, params.idAccount) IN
  IF i = 0
  THEN [err |-> "taskNotFound", ret |-> Null]
  ELSE [err |-> "ok",
        ret |-> Some([ idTask |-> store[i].idTask,
                       status |-> store[i].status,
                       isDraft |-> store[i].isDraft,
                       recurrenceType |-> store[i].recurrenceType,
                       recurrenceInterval |-> store[i].recurrenceInterval,
                       recurrenceEndDate |-> store[i].recurrenceEndDate,
                       attachments |-> taskAttachmentsOf(atts, params.idTask, params.idAccount) ])]

\* @validation Title validation of taskUpdate
updateTitleError(title) ==
  IF title = Undefined THEN "ok"
  ELSE IF StrLen(Trim(title)) < TitleMinLength THEN "titleTooShort"
  ELSE IF StrLen(title) > TitleMaxLength THEN "titleTooLong"
  ELSE "ok"

\* params.description !== undefined && params.description && params.description.length > 1000
updateDescriptionError(description) ==
  IF description # Undefined THEN descriptionError(description) ELSE "ok"

\* The checks of taskUpdate after the task was found, in their order
taskUpdateError(params, t) ==
  IF updateTitleError(params.title) # "ok" THEN updateTitleError(params.title)
  ELSE IF updateDescriptionError(params.description) # "ok"
       THEN updateDescriptionError(params.description)
  ELSE dueDateError(params.dueDate, t)

\* @rule BR-022 and the status assignment: the status taskUpdate leaves in the task
\* The draft exit without its default: only an explicit status changes the status
updateStatus_NoDefault(old, params) ==
  IF params.status # Undefined THEN Get(params.status) ELSE old.status

\* A Completed task kept Completed whatever status is given
updateStatus_CompletedStays(old, params) ==
  IF old.status = 3 THEN old.status
  ELSE IF params.status # Undefined THEN Get(params.status) ELSE old.status

updateStatus(old, params) ==
  LET wasDraft == old.isDraft
      afterDraft == IF params.isDraft # Undefined /\ wasDraft /\ ~Get(params.isDraft)
                    THEN StatusPending
                    ELSE old.status
  IN IF params.status # Undefined /\ ~(wasDraft /\ params.isDraft = Some(FALSE))
     THEN Get(params.status)
     ELSE afterDraft

\* The task object replaced as a whole: a description left out is cleared
updatedTask_ClearsDescription(old, params, t) ==
  [old EXCEPT
     !.title = IF params.title # Undefined THEN Trim(params.title) ELSE @,
     !.description = IF params.description # Undefined THEN params.description ELSE Null,
     !.dueDate = IF params.dueDate # Undefined THEN params.dueDate ELSE @,
     !.priority = IF params.priority # Undefined THEN Get(params.priority) ELSE @,
     !.isDraft = IF params.isDraft # Undefined THEN Get(params.isDraft) ELSE @,
     !.status = IF params.status # Undefined /\ ~(old.isDraft /\ params.isDraft = Some(FALSE))
                THEN Get(params.status)
                ELSE IF params.isDraft = Some(FALSE) /\ old.isDraft THEN StatusPending ELSE old.status,
     !.dateModified = t]

\* The task object after the assignments of taskUpdate
updatedTask(old, params, t) ==
  [old EXCEPT
     !.title = IF params.title # Undefined THEN Trim(params.title) ELSE @,
     !.description = IF params.description # Undefined THEN params.description ELSE @,
     !.dueDate = IF params.dueDate # Undefined THEN params.dueDate ELSE @,
     !.priority = IF params.priority # Undefined THEN Get(params.priority) ELSE @,
     !.isDraft = IF params.isDraft # Undefined THEN Get(params.isDraft) ELSE @,
     !.status = updateStatus(old, params),
     !.dateModified = t]

\* The title assigned before the later checks have run
taskUpdate_TitleFirst(params, store, t) ==
  LET i == findTask(store, params.idTask, params.idAccount) IN
  IF i = 0 THEN [err |-> "taskNotFound", tasks |-> store, wasDraft |-> FALSE]
  ELSE IF taskUpdateError(params, t) # "ok"
       THEN [err |-> taskUpdateError(params, t),
             tasks |-> IF updateTitleError(params.title) = "ok" /\ params.title # Undefined
                       THEN [store EXCEPT ![i].title = Trim(params.title)] ELSE store,
             wasDraft |-> FALSE]
  ELSE [err |-> "ok", tasks |-> [store EXCEPT ![i] = updatedTask(store[i], params, t)],
        wasDraft |-> store[i].isDraft]

\* taskUpdate: [err, tasks, wasDraft]; wasDraft is the local of that name when the
\* assignments are reached
taskUpdate(params, store, t) ==
  LET i == findTask(store, params.idTask, params.idAccount) IN
  IF i = 0 THEN [err |-> "taskNotFound", tasks |-> store, wasDraft |-> FALSE]
  ELSE IF taskUpdateError(params, t) # "ok"
       THEN [err |-> taskUpdateError(params, t), tasks |-> store, wasDraft |-> FALSE]
  ELSE [err |-> "ok", tasks |-> [store EXCEPT ![i] = updatedTask(store[i], params, t)],
        wasDraft |-> store[i].isDraft]

\* @rule Soft delete task
softDeleted(old, t) == [old EXCEPT !.deleted = TRUE, !.dateModified = t]

\* taskDelete: [err, tasks]
taskDelete(params, store, t) ==
  LET i == findTask(store, params.idTask, params.idAccount) IN
  IF i = 0 THEN [err |-> "taskNotFound", tasks |-> store]
  ELSE [err |-> "ok", tasks |-> [store EXCEPT ![i] = softDeleted(store[i], t)]]

----------------------------------------------------------------------------
\* Application rules: taskAttachmentCreate, taskAttachmentDelete

validFormats == {"pdf", "doc", "docx", "jpg", "png"}

\* The size tested before the format
fileError_SizeFirst(params) ==
  IF params.fileSize <= 0 \/ params.fileSize > MaxFileSize THEN "fileTooLarge"
  ELSE IF params.fileType \notin validFormats THEN "invalidFileFormat"
  ELSE "ok"

\* @validation File format, File size
fileError(params) ==
  IF params.fileType \notin validFormats THEN "invalidFileFormat"
  ELSE IF params.fileSize <= 0 \/ params.fileSize > MaxFileSize THEN "fileTooLarge"
  ELSE "ok"

\* The ceiling compared with > instead of >=
tooManyAttachments_OffByOne(atts, params) ==
  Len(taskAttachmentsOf(atts, params.idTask, params.idAccount)) > MaxAttachmentsPerTask

\* @validation Maximum attachments: taskAttachments.length >= 5
tooManyAttachments(atts, params) ==
  Len(taskAttachmentsOf(atts, params.idTask, params.idAccount)) >= MaxAttachmentsPerTask

\* The attachment object taskAttachmentCreate pushes
newAttachment(params, atts, t) ==
  [ idTaskAttachment |-> Len(atts) + 1,
    idAccount |-> params.idAccount,
    idTask |-> params.idTask,
    fileName |-> params.fileName,
    fileSize |-> params.fileSize,
    fileType |-> params.fileType,
    storageUrl |-> <<params.idTask, Len(atts) + 1, params.fileName>>,
    dateCreated |-> t ]

\* taskAttachmentCreate: [err, attachments, ret]
taskAttachmentCreate(params, store, atts, t) ==
  IF findTask(store, params.idTask, params.idAccount) = 0
  THEN [err |-> "taskNotFound", attachments |-> atts, ret |-> Null]
  ELSE IF fileError(params) # "ok"
       THEN [err |-> fileError(params), attachments |-> atts, ret |-> Null]
  ELSE IF tooManyAttachments(atts, params)
       THEN [err |-> "tooManyAttachments", attachments |-> atts, ret |-> Null]
  ELSE [err |-> "ok",
        attachments |-> Append(atts, newAttachment(params, atts, t)),
        ret |-> Some(Len(atts) + 1)]

\* The predicate of attachments.findIndex in taskAttachmentDelete
attachmentMatches(a, params) ==
  /\ a.idTaskAttachment = params.idTaskAttachment
  /\ a.idTask = params.idTask
  /\ a.idAccount = params.idAccount

\* taskAttachmentDelete: [err, attachments]
taskAttachmentDelete(params, atts) ==
  LET P(a) == attachmentMatches(a, params)
      i == FindIndex(atts, P)
  IN IF i = 0 THEN [err |-> "attachmentNotFound", attachments |-> atts]
     ELSE [err |-> "ok", attachments |-> Splice(atts, i)]

----------------------------------------------------------------------------
\* HTTP handler: postHandler

\* z.enum of recurrenceConfig.type in the body schema ('diária' written without
\* its accent)
HandlerRecurrenceTypes == {"diaria", "semanal", "mensal", "anual"}

\* bodySchema.parse(req.body): a body the schema refuses ends in VALIDATION_ERROR
bodyError(body) ==
  IF \/ ~IsStr(body.title)
     \/ StrLen(body.title) < TitleMinLength \/ StrLen(body.title) > TitleMaxLength
     \/ IsSome(body.description) /\ Get(body.description) > DescriptionMaxLength
     \/ IsSome(body.priority) /\ Get(body.priority) \notin 0..2
     \/ /\ IsSome(body.recurrenceConfig)
        /\ \/ Get(body.recurrenceConfig).type \notin HandlerRecurrenceTypes
           \/ Get(body.recurrenceConfig).interval < 1
           \/ Get(body.recurrenceConfig).interval > RecurrenceIntervalMax
  THEN "VALIDATION_ERROR"
  ELSE "ok"

\* The params object postHandler builds: the validated body with its dates made
\* Date objects; the descriptor stays nested under recurrenceConfig, so the
\* properties recurrenceType, recurrenceInterval and recurrenceEndDate are
\* undefined
postHandlerParams(body) ==
  [ idAccount |-> body.idAccount,
    idUser |-> body.idUser,
    title |-> body.title,
    description |-> body.description,
    dueDate |-> IF IsSome(body.dueDate) THEN body.dueDate ELSE Null,
    priority |-> body.priority,
    isDraft |-> body.isDraft,
    recurrenceConfig |->
      IF IsSome(body.recurrenceConfig)
      THEN Some([Get(body.recurrenceConfig) EXCEPT !.endDate = IF IsSome(@) THEN @ ELSE Null])
      ELSE Null,
    recurrenceType |-> Undefined,
    recurrenceInterval |-> Undefined,
    recurrenceEndDate |-> Undefined ]

\* postHandler: [err, tasks, ret]
postHandler(body, store, t) ==
  IF bodyError(body) # "ok"
  THEN [err |-> "VALIDATION_ERROR", tasks |-> store, ret |-> Null]
  ELSE taskCreate(postHandlerParams(body), store, t)

\* The answer of postHandler: 201 on success, the catch chain on an error;
\* "next" is next(error), the generic fault handler
postHandlerStatus(err) ==
  IF err = "ok" THEN "201"
  ELSE IF err \in {"VALIDATION_ERROR", "requiredParametersMissing", "titleRequired", "titleTooShort",
                   "titleTooLong", "descriptionTooLong", "dueDateInPast", "invalidPriority",
                   "invalidRecurrenceConfig"}
       THEN "400"
  ELSE "next"

\* HTTP handler: getHandler (GET /task/:id), with its mock account 1

\* paramsSchema.parse(req.params): id is a positive integer
idError(id) == IF id < 1 THEN "VALIDATION_ERROR" ELSE "ok"

\* getHandler: [err, status]
getHandler(id, store, atts) ==
  LET err == IF idError(id) # "ok" THEN "VALIDATION_ERROR"
             ELSE taskGet([idAccount |-> 1, idTask |-> id], store, atts).err
  IN [ err |-> err,
       status |-> IF err = "ok" THEN "200"
                  ELSE IF err \in {"VALIDATION_ERROR", "requiredParametersMissing"} THEN "400"
                  ELSE IF err = "taskDoesntExist" THEN "404"
                  ELSE "next" ]

\* HTTP handlers of the attachments: createHandler, deleteHandler, with account 1

\* bodySchema.parse(req.body) of createHandler
fileBodyError(body) ==
  IF body.fileSize < 1 \/ body.fileSize > MaxFileSize \/ body.fileType \notin validFormats
  THEN "VALIDATION_ERROR" ELSE "ok"

\* createHandler: [err, attachments, ret, status]
createHandler(id, body, store, atts, t) ==
  LET r == IF idError(id) # "ok" \/ fileBodyError(body) # "ok"
           THEN [err |-> "VALIDATION_ERROR", attachments |-> atts, ret |-> Null]
           ELSE taskAttachmentCreate([ idAccount |-> 1, idTask |-> id, fileName |-> body.fileName,
                                       fileSize |-> body.fileSize, fileType |-> body.fileType ],
                                     store, atts, t)
  IN [ err |-> r.err, attachments |-> r.attachments, ret |-> r.ret,
       status |-> IF r.err = "ok" THEN "201"
                  ELSE IF r.err = "taskNotFound" THEN "404"
                  ELSE IF r.err \in {"VALIDATION_ERROR", "invalidFileFormat", "fileTooLarge",
                                     "tooManyAttachments"}
                       THEN "400"
                  ELSE "next" ]

\* deleteHandler: [err, attachments, status]
deleteHandler(id, idAttachment, atts) ==
  LET r == IF idError(id) # "ok" \/ idError(idAttachment) # "ok"
           THEN [err |-> "VALIDATION_ERROR", attachments |-> atts]
           ELSE taskAttachmentDelete([ idAccount |-> 1, idTask |-> id,
                                       idTaskAttachment |-> idAttachment ], atts)
  IN [ err |-> r.err, attachments |-> r.attachments,
       status |-> IF r.err = "ok" THEN "200"
                  ELSE IF r.err = "VALIDATION_ERROR" THEN "400"
                  ELSE IF r.err = "attachmentNotFound" THEN "404"
                  ELSE "next" ]

\* HTTP handler: listHandler

\* querySchema.parse(req.query): idUser is required, statusFilter is in 0..4
queryError(query) ==
  IF \/ ~IsSome(query.idUser)
     \/ IsSome(query.statusFilter) /\ Get(query.statusFilter) \notin 0..4
  THEN "VALIDATION_ERROR"
  ELSE "ok"

\* The object listHandler hands taskList: the validated query as it is, so the
\* properties status and isDraft that taskList reads are undefined
listHandlerParams(query) ==
  [ idAccount |-> query.idAccount,
    idUser |-> query.idUser,
    statusFilter |-> query.statusFilter,
    showDrafts |-> query.showDrafts,
    status |-> Undefined,
    isDraft |-> Undefined ]

\* listHandler: [err, ret]
listHandler(query, store, t) ==
  IF queryError(query) # "ok"
  THEN [err |-> "VALIDATION_ERROR", ret |-> Null]
  ELSE LET r == taskList(listHandlerParams(query), store, t) IN
       [err |-> "ok", ret |-> Some([i \in 1..Len(r) |-> r[i].idTask])]

----------------------------------------------------------------------------
\* Stored procedures: parameter and string semantics

\* A parameter declared with a default takes it when the caller leaves it out
Bind(p, default) == IF p = Undefined THEN default ELSE p

\* NVARCHAR(n) parameter: a longer value is cut to its first n characters
NVarChar(s, n) ==
  IF ~IsStr(s) \/ StrLen(s) <= n THEN s
  ELSE IF s[1] >= n THEN Str(n, 0, 0)
  ELSE IF s[1] + s[2] >= n THEN Str(s[1], n - s[1], 0)
  ELSE Str(s[1], s[2], n - s[1] - s[2])

\* NVARCHAR(n) parameter holding a description, known by its length
NVarCharLen(d, n) == IF IsSome(d) /\ Get(d) > n THEN Some(n) ELSE d

\* DATE parameter: the time of day is dropped
CastDate(d) == IF IsSome(d) THEN Some(StartOfDay(Get(d))) ELSE d

\* LEN: trailing blanks are not counted
SqlLen(s) == IF s[2] = 0 THEN 0 ELSE s[1] + s[2]

\* LTRIM(RTRIM(s))
SqlTrim(s) == Str(0, s[2], 0)

\* A recurrenceConfig text: <<>> is the empty string, <<"text">> a text that is
\* not JSON, <<"json", cfg>> the JSON text of cfg
EmptyText == <<>>
ISJSON(x) == Len(x) = 2

\* The database as one value
Db(tsk, tskAtt, stsk, ident) ==
  [task |-> tsk, taskAttachment |-> tskAtt, subtask |-> stsk, identity |-> ident]

----------------------------------------------------------------------------
\* Stored procedures: spTaskCreate

\* @validation titleRequired, titleTooShort, titleTooLong
spCreateTitleError(title) ==
  IF title = Null \/ SqlTrim(title) = Str(0, 0, 0) THEN "titleRequired"
  ELSE IF SqlLen(SqlTrim(title)) < TitleMinLength THEN "titleTooShort"
  ELSE IF SqlLen(title) > TitleMaxLength THEN "titleTooLong"
  ELSE "ok"

\* @validation descriptionTooLong
spDescriptionError(description) ==
  IF IsSome(description) /\ Get(description) > DescriptionMaxLength
  THEN "descriptionTooLong" ELSE "ok"

\* @validation dueDateInPast: @dueDate < CAST(GETUTCDATE() AS DATE)
spDueDateError(dueDate, t) ==
  IF IsSome(dueDate) /\ Get(dueDate) < StartOfDay(t) THEN "dueDateInPast" ELSE "ok"

\* @validation invalidPriority: @priority NOT BETWEEN 0 AND 2 (unknown for NULL)
spPriorityError(priority) ==
  IF IsSome(priority) /\ ~(Get(priority) >= 0 /\ Get(priority) <= 2)
  THEN "invalidPriority" ELSE "ok"

\* @rule be-business-rule-005: IF @isDraft = 1 ... ELSE ...
spCreateStatus(isDraft) ==
  IF isDraft = Some(TRUE) THEN StatusDraft ELSE StatusPending

\* @rule be-recurrence-config of spTaskCreate
spRecurrenceError(recurrenceConfig) ==
  IF IsSome(recurrenceConfig) /\ Get(recurrenceConfig) # EmptyText /\ ~ISJSON(Get(recurrenceConfig))
  THEN "invalidRecurrenceConfig" ELSE "ok"

\* The parameters of spTaskCreate as the procedure sees them
spTaskCreateBind(params) ==
  [ idAccount |-> params.idAccount,
    idUser |-> params.idUser,
    title |-> NVarChar(Bind(params.title, Null), TitleMaxLength),
    description |-> NVarCharLen(Bind(params.description, Null), DescriptionMaxLength),
    dueDate |-> CastDate(Bind(params.dueDate, Null)),
    priority |-> Bind(params.priority, Some(PriorityMedium)),
    recurrenceConfig |-> Bind(params.recurrenceConfig, Null),
    isDraft |-> Bind(params.isDraft, Some(FALSE)) ]

\* The checks of spTaskCreate in their order
spTaskCreateError(p, t) ==
  IF spCreateTitleError(p.title) # "ok" THEN spCreateTitleError(p.title)
  ELSE IF spDescriptionError(p.description) # "ok" THEN spDescriptionError(p.description)
  ELSE IF spDueDateError(p.dueDate, t) # "ok" THEN spDueDateError(p.dueDate, t)
  ELSE IF spPriorityError(p.priority) # "ok" THEN spPriorityError(p.priority)
  ELSE spRecurrenceError(p.recurrenceConfig)

\* The row spTaskCreate inserts
spNewTaskRow(p, ident, t) ==
  [ idTask |-> ident,
    idAccount |-> p.idAccount,
    idUser |-> p.idUser,
    title |-> p.title,
    description |-> p.description,
    dueDate |-> p.dueDate,
    priority |-> Get(p.priority),
    status |-> spCreateStatus(p.isDraft),
    isRecurring |-> IsSome(p.recurrenceConfig) /\ Get(p.recurrenceConfig) # EmptyText,
    recurrenceConfig |-> p.recurrenceConfig,
    isDraft |-> Get(p.isDraft),
    dateCreated |-> t,
    dateModified |-> t,
    deleted |-> FALSE ]

\* spTaskCreate: [err, db, ret].  A NULL for a NOT NULL column fails the INSERT,
\* which is rolled back and thrown again: err "fault".
spTaskCreate(params, db, t) ==
  LET p == spTaskCreateBind(params)
      err == spTaskCreateError(p, t)
  IN IF err # "ok" THEN [err |-> err, db |-> db, ret |-> Null]
     ELSE IF p.priority = Null \/ p.isDraft = Null
          THEN [err |-> "fault", db |-> db, ret |-> Null]
     ELSE [err |-> "ok",
           db |-> [db EXCEPT
                     !.task = @ \cup {spNewTaskRow(p, db.identity.task + 1, t)},
                     !.identity.task = @ + 1],
           ret |-> Some(db.identity.task + 1)]

----------------------------------------------------------------------------
\* Stored procedures: spTaskGet, spTaskUpdate, spTaskDelete

\* @validation Task existence: EXISTS (... idTask = @idTask AND idAccount = @idAccount AND deleted = 0)
\* The existence check without its account conjunct
spTaskExists_AnyAccount(db, idTask, idAccount) ==
  \E r \in db.task : r.idTask = idTask /\ r.deleted = FALSE

spTaskExists(db, idTask, idAccount) ==
  \E r \in db.task : r.idTask = idTask /\ r.idAccount = idAccount /\ r.deleted = FALSE

\* The three result sets of spTaskGet
spTaskGetRows(db, idTask, idAccount) ==
  [ task |-> {r \in db.task : r.idTask = idTask /\ r.idAccount = idAccount /\ r.deleted = FALSE},
    subtasks |-> {r \in db.subtask : r.idTask = idTask /\ r.idAccount = idAccount /\ r.deleted = FALSE},
    attachments |-> {r \in db.taskAttachment : r.idTask = idTask /\ r.idAccount = idAccount} ]

\* spTaskGet: [err, ret]
spTaskGet(params, db) ==
  IF ~spTaskExists(db, params.idTask, params.idAccount)
  THEN [err |-> "taskNotFound", ret |-> Null]
  ELSE [err |-> "ok", ret |-> Some(spTaskGetRows(db, params.idTask, params.idAccount))]

\* The parameters of spTaskUpdate as the procedure sees them (every default is NULL)
spTaskUpdateBind(params) ==
  [ idAccount |-> params.idAccount,
    idTask |-> params.idTask,
    title |-> NVarChar(Bind(params.title, Null), TitleMaxLength),
    description |-> NVarCharLen(Bind(params.description, Null), DescriptionMaxLength),
    dueDate |-> CastDate(Bind(params.dueDate, Null)),
    priority |-> Bind(params.priority, Null),
    status |-> Bind(params.status, Null),
    recurrenceConfig |-> Bind(params.recurrenceConfig, Null),
    isDraft |-> Bind(params.isDraft, Null) ]

\* @validation titleTooShort, titleTooLong of spTaskUpdate
spUpdateTitleError(title) ==
  IF title # Null /\ SqlLen(SqlTrim(title)) < TitleMinLength THEN "titleTooShort"
  ELSE IF title # Null /\ SqlLen(title) > TitleMaxLength THEN "titleTooLong"
  ELSE "ok"

\* @validation invalidStatus: @status NOT BETWEEN 0 AND 4
spStatusError(status) ==
  IF IsSome(status) /\ ~(Get(status) >= 0 /\ Get(status) <= 4)
  THEN "invalidStatus" ELSE "ok"

\* The checks of spTaskUpdate after the existence check, in their order
spTaskUpdateError(p, t) ==
  IF spUpdateTitleError(p.title) # "ok" THEN spUpdateTitleError(p.title)
  ELSE IF spDescriptionError(p.description) # "ok" THEN spDescriptionError(p.description)
  ELSE IF spDueDateError(p.dueDate, t) # "ok" THEN spDueDateError(p.dueDate, t)
  ELSE IF spPriorityError(p.priority) # "ok" THEN spPriorityError(p.priority)
  ELSE IF spStatusError(p.status) # "ok" THEN spStatusError(p.status)
  ELSE spRecurrenceError(p.recurrenceConfig)

\* @rule be-recurrence-config of spTaskUpdate: the values of @isRecurring and
\* @recurrenceConfig after it
spUpdateRecurrence(p) ==
  IF IsSome(p.recurrenceConfig) /\ Get(p.recurrenceConfig) # EmptyText
  THEN [isRecurring |-> Some(TRUE), recurrenceConfig |-> p.recurrenceConfig]
  ELSE IF p.recurrenceConfig = Some(EmptyText)
       THEN [isRecurring |-> Some(FALSE), recurrenceConfig |-> Null]
  ELSE [isRecurring |-> Null, recurrenceConfig |-> p.recurrenceConfig]

\* EXISTS (... idTask = @idTask AND idAccount = @idAccount AND isDraft = 1)
spDraftExists(db, idTask, idAccount) ==
  \E r \in db.task : r.idTask = idTask /\ r.idAccount = idAccount /\ r.isDraft = TRUE

\* @rule be-business-rule-022: the value of @status after it
spUpdateStatus(p, draftExists) ==
  IF p.isDraft = Some(FALSE) /\ draftExists /\ p.status = Null
  THEN Some(StatusPending)
  ELSE p.status

\* ISNULL(@x, [x]) and CASE WHEN @x IS NOT NULL THEN @x ELSE [x] END on a plain column
IsNull(x, col) == IF x # Null THEN Get(x) ELSE col

\* The same on a nullable column
IsNullOpt(x, col) == IF x # Null THEN x ELSE col

\* The SET list of the UPDATE of spTaskUpdate applied to one row
spUpdatedRow(r, p, status, rec, t) ==
  [r EXCEPT
     !.title = IF p.title # Null THEN p.title ELSE @,
     !.description = IsNullOpt(p.description, @),
     !.dueDate = IsNullOpt(p.dueDate, @),
     !.priority = IsNull(p.priority, @),
     !.status = IsNull(status, @),
     !.isRecurring = IsNull(rec.isRecurring, @),
     !.recurrenceConfig = IsNullOpt(rec.recurrenceConfig, @),
     !.isDraft = IsNull(p.isDraft, @),
     !.dateModified = t]

\* The transaction of spTaskUpdate: UPDATE ... WHERE idTask = @idTask AND idAccount = @idAccount
spTaskUpdateTran(db, p, status, rec, t) ==
  [db EXCEPT !.task =
     {IF r.idTask = p.idTask /\ r.idAccount = p.idAccount
      THEN spUpdatedRow(r, p, status, rec, t) ELSE r : r \in @}]

\* spTaskUpdate run alone: [err, db, wasDraft]; wasDraft is the EXISTS of rule
\* be-business-rule-022 when the rule is reached
spTaskUpdate(params, db, t) ==
  LET p == spTaskUpdateBind(params) IN
  IF ~spTaskExists(db, p.idTask, p.idAccount)
  THEN [err |-> "taskNotFound", db |-> db, wasDraft |-> FALSE]
  ELSE IF spTaskUpdateError(p, t) # "ok"
       THEN [err |-> spTaskUpdateError(p, t), db |-> db, wasDraft |-> FALSE]
  ELSE [err |-> "ok",
        db |-> spTaskUpdateTran(db, p,
                                spUpdateStatus(p, spDraftExists(db, p.idTask, p.idAccount)),
                                spUpdateRecurrence(p), t),
        wasDraft |-> spDraftExists(db, p.idTask, p.idAccount)]

\* @rule be-soft-delete: the first UPDATE of the transaction of spTaskDelete
spDeleteTaskRows(rows, idTask, idAccount, t) ==
  {IF r.idTask = idTask /\ r.idAccount = idAccount
   THEN [r EXCEPT !.deleted = TRUE, !.dateModified = t] ELSE r : r \in rows}

\* The cascade left out: the subtask rows stay as they were
spDeleteSubtaskRows_NoCascade(rows, idTask, idAccount, t) == rows

\* @rule be-cascade-delete: the second UPDATE of the transaction of spTaskDelete
spDeleteSubtaskRows(rows, idTask, idAccount, t) ==
  {IF r.idTask = idTask /\ r.idAccount = idAccount /\ r.deleted = FALSE
   THEN [r EXCEPT !.deleted = TRUE, !.dateModified = t] ELSE r : r \in rows}

\* The transaction with a cascade to the attachments of the task
spTaskDeleteTran_WithAttachments(db, idTask, idAccount, t) ==
  [db EXCEPT !.task = spDeleteTaskRows(@, idTask, idAccount, t),
             !.subtask = spDeleteSubtaskRows(@, idTask, idAccount, t),
             !.taskAttachment = {r \in @ : ~(r.idTask = idTask /\ r.idAccount = idAccount)}]

\* The transaction of spTaskDelete (BEGIN TRAN ... COMMIT TRAN): both updates
\* become visible together
spTaskDeleteTran(db, idTask, idAccount, t) ==
  [db EXCEPT !.task = spDeleteTaskRows(@, idTask, idAccount, t),
             !.subtask = spDeleteSubtaskRows(@, idTask, idAccount, t)]

\* spTaskDelete run alone: [err, db]
spTaskDelete(params, db, t) ==
  IF ~spTaskExists(db, params.idTask, params.idAccount)
  THEN [err |-> "taskNotFound", db |-> db]
  ELSE [err |-> "ok", db |-> spTaskDeleteTran(db, params.idTask, params.idAccount, t)]

----------------------------------------------------------------------------
\* Stored procedures: spTaskAttachmentCreate, spTaskAttachmentDelete

\* @validation invalidFileFormat, fileTooLarge
spFileError(params) ==
  IF params.fileType \notin validFormats THEN "invalidFileFormat"
  ELSE IF params.fileSize <= 0 \/ params.fileSize > MaxFileSize THEN "fileTooLarge"
  ELSE "ok"

\* SELECT @attachmentCount = COUNT(*) ... WHERE idTask = @idTask AND idAccount = @idAccount
spAttachmentCount(db, idTask, idAccount) ==
  Cardinality({r \in db.taskAttachment : r.idTask = idTask /\ r.idAccount = idAccount})

\* IF (@attachmentCount >= 5)
spTooManyAttachments(attachmentCount) == attachmentCount >= MaxAttachmentsPerTask

\* The transaction of spTaskAttachmentCreate: the INSERT
spTaskAttachmentInsert(db, params, t) ==
  [db EXCEPT
     !.taskAttachment = @ \cup
        {[ idTaskAttachment |-> db.identity.taskAttachment + 1,
           idAccount |-> params.idAccount,
           idTask |-> params.idTask,
           fileName |-> params.fileName,
           fileSize |-> params.fileSize,
           fileType |-> params.fileType,
           storageUrl |-> params.storageUrl,
           dateCreated |-> t ]},
     !.identity.taskAttachment = @ + 1]

\* The statements of spTaskAttachmentCreate before BEGIN TRAN: the checks, the
\* count SELECT among them, each reading the committed rows
spTaskAttachmentCreateError(params, db) ==
  IF ~spTaskExists(db, params.idTask, params.idAccount) THEN "taskNotFound"
  ELSE IF spFileError(params) # "ok" THEN spFileError(params)
  ELSE IF spTooManyAttachments(spAttachmentCount(db, params.idTask, params.idAccount))
       THEN "tooManyAttachments"
  ELSE "ok"

\* spTaskAttachmentCreate run alone: [err, db, ret]
spTaskAttachmentCreate(params, db, t) ==
  IF spTaskAttachmentCreateError(params, db) # "ok"
  THEN [err |-> spTaskAttachmentCreateError(params, db), db |-> db, ret |-> Null]
  ELSE [err |-> "ok",
        db |-> spTaskAttachmentInsert(db, params, t),
        ret |-> Some(db.identity.taskAttachment + 1)]

\* The row predicate of spTaskAttachmentDelete
spAttachmentMatches(r, params) ==
  /\ r.idTaskAttachment = params.idTaskAttachment
  /\ r.idTask = params.idTask
  /\ r.idAccount = params.idAccount

\* spTaskAttachmentDelete run alone: [err, db]
spTaskAttachmentDelete(params, db) ==
  IF ~\E r \in db.taskAttachment : spAttachmentMatches(r, params)
  THEN [err |-> "attachmentNotFound", db |-> db]
  ELSE [err |-> "ok",
        db |-> [db EXCEPT !.taskAttachment = {r \in @ : ~spAttachmentMatches(r, params)}]]

----------------------------------------------------------------------------
\* The state machine: one request at a time

Idle == [pc |-> "idle"]

Init ==
  /\ layer \in {"app", "db"}
  /\ now = TicksPerDay
  /\ tasks = <<>>
  /\ attachments = <<>>
  /\ task = {}
  /\ taskAttachment = {}
  /\ subtask = {}
  /\ identity = [task |-> 0, taskAttachment |-> 0, subtask |-> 0]
  /\ sessions = [s \in 1..NumSessions |-> Idle]
  /\ last = [op |-> "none", err |-> "ok"]

CurrentDb == Db(task, taskAttachment, subtask, identity)

SetDb(db) ==
  /\ task' = db.task
  /\ taskAttachment' = db.taskAttachment
  /\ subtask' = db.subtask
  /\ identity' = db.identity

AppFrame == UNCHANGED <<layer, now, task, taskAttachment, subtask, identity, sessions>>
DbFrame == UNCHANGED <<layer, now, tasks, attachments, sessions>>

Outcome(op, params, err, ret) == [op |-> op, params |-> params, err |-> err, ret |-> ret]

UpdateOutcome(params, err, wasDraft) ==
  [op |-> "updateTask", params |-> params, err |-> err, ret |-> Null, wasDraft |-> wasDraft]

\* Application rules, each call run to completion (no await inside a rule)

TaskCreate(P, cap) ==
  /\ layer = "app" /\ Len(tasks) < cap
  /\ \E params \in P :
       LET r == taskCreate(params, tasks, now) IN
       /\ tasks' = r.tasks
       /\ last' = Outcome("createTask", params, r.err, r.ret)
  /\ UNCHANGED attachments /\ AppFrame

PostHandler(B, cap) ==
  /\ layer = "app" /\ Len(tasks) < cap
  /\ \E body \in B :
       LET r == postHandler(body, tasks, now) IN
       /\ tasks' = r.tasks
       /\ last' = [ op |-> "postHandler", params |-> body, err |-> r.err, ret |-> r.ret,
                     status |-> postHandlerStatus(r.err) ]
  /\ UNCHANGED attachments /\ AppFrame

GetHandler(I) ==
  /\ layer = "app"
  /\ \E id \in I :
       LET r == getHandler(id, tasks, attachments) IN
       last' = [ op |-> "getHandler", params |-> [idTask |-> id], err |-> r.err, ret |-> Null,
                 status |-> r.status ]
  /\ UNCHANGED <<tasks, attachments>> /\ AppFrame

CreateHandler(I, B, cap) ==
  /\ layer = "app" /\ Len(attachments) < cap
  /\ \E id \in I, body \in B :
       LET r == createHandler(id, body, tasks, attachments, now) IN
       /\ attachments' = r.attachments
       /\ last' = [ op |-> "createHandler", params |-> [idTask |-> id, body |-> body],
                     err |-> r.err, ret |-> r.ret, status |-> r.status ]
  /\ UNCHANGED tasks /\ AppFrame

DeleteHandler(I, K) ==
  /\ layer = "app"
  /\ \E id \in I, idAttachment \in K :
       LET r == deleteHandler(id, idAttachment, attachments) IN
       /\ attachments' = r.attachments
       /\ last' = [ op |-> "deleteHandler",
                     params |-> [idTask |-> id, idTaskAttachment |-> idAttachment],
                     err |-> r.err, ret |-> Null, status |-> r.status ]
  /\ UNCHANGED tasks /\ AppFrame

\* The outcome keeps the summaries under list, their idTask, in the order
\* returned, under ret, and the instant of the call under at
TaskList(P) ==
  /\ layer = "app"
  /\ \E params \in P :
       LET r == taskList(params, tasks, now) IN
       last' = [ op |-> "listTasks", params |-> params, err |-> "ok",
                 ret |-> Some([i \in 1..Len(r) |-> r[i].idTask]), list |-> r, at |-> now ]
  /\ UNCHANGED <<tasks, attachments>> /\ AppFrame

ListHandler(Q) ==
  /\ layer = "app"
  /\ \E query \in Q :
       LET r == listHandler(query, tasks, now) IN
       last' = Outcome("listHandler", query, r.err, r.ret)
  /\ UNCHANGED <<tasks, attachments>> /\ AppFrame

TaskGet(P) ==
  /\ layer = "app"
  /\ \E params \in P :
       LET r == taskGet(params, tasks, attachments) IN
       last' = Outcome("getTask", params, r.err, r.ret)
  /\ UNCHANGED <<tasks, attachments>> /\ AppFrame

TaskUpdate(P) ==
  /\ layer = "app"
  /\ \E params \in P :
       LET r == taskUpdate(params, tasks, now) IN
       /\ tasks' = r.tasks
       /\ last' = UpdateOutcome(params, r.err, r.wasDraft)
  /\ UNCHANGED attachments /\ AppFrame

TaskDelete(P) ==
  /\ layer = "app"
  /\ \E params \in P :
       LET r == taskDelete(params, tasks, now) IN
       /\ tasks' = r.tasks
       /\ last' = Outcome("deleteTask", params, r.err, Null)
  /\ UNCHANGED attachments /\ AppFrame

TaskAttachmentCreate(P, cap) ==
  /\ layer = "app" /\ Len(attachments) < cap
  /\ \E params \in P :
       LET r == taskAttachmentCreate(params, tasks, attachments, now) IN
       /\ attachments' = r.attachments
       /\ last' = Outcome("createAttachment", params, r.err, r.ret)
  /\ UNCHANGED tasks /\ AppFrame

TaskAttachmentDelete(P) ==
  /\ layer = "app"
  /\ \E params \in P :
       LET r == taskAttachmentDelete(params, attachments) IN
       /\ attachments' = r.attachments
       /\ last' = Outcome("deleteAttachment", params, r.err, Null)
  /\ UNCHANGED tasks /\ AppFrame

\* Stored procedures, each run alone from its first statement to its last

SpTaskCreate(P, cap) ==
  /\ layer = "db" /\ identity.task < cap
  /\ \E params \in P :
       LET r == spTaskCreate(params, CurrentDb, now) IN
       /\ SetDb(r.db)
       /\ last' = Outcome("createTask", params, r.err, r.ret)
  /\ DbFrame

SpTaskGet(P) ==
  /\ layer = "db"
  /\ \E params \in P :
       LET r == spTaskGet(params, CurrentDb) IN
       last' = Outcome("getTask", params, r.err, r.ret)
  /\ UNCHANGED <<task, taskAttachment, subtask, identity>> /\ DbFrame

SpTaskUpdate(P) ==
  /\ layer = "db"
  /\ \E params \in P :
       LET r == spTaskUpdate(params, CurrentDb, now) IN
       /\ SetDb(r.db)
       /\ last' = UpdateOutcome(params, r.err, r.wasDraft)
  /\ DbFrame

SpTaskDelete(P) ==
  /\ layer = "db"
  /\ \E params \in P :
       LET r == spTaskDelete(params, CurrentDb, now) IN
       /\ SetDb(r.db)
       /\ last' = Outcome("deleteTask", params, r.err, Null)
  /\ DbFrame

SpTaskAttachmentCreate(P, cap) ==
  /\ layer = "db" /\ identity.taskAttachment < cap
  /\ \E params \in P :
       LET r == spTaskAttachmentCreate(params, CurrentDb, now) IN
       /\ SetDb(r.db)
       /\ last' = Outcome("createAttachment", params, r.err, r.ret)
  /\ DbFrame

SpTaskAttachmentDelete(P) ==
  /\ layer = "db"
  /\ \E params \in P :
       LET r == spTaskAttachmentDelete(params, CurrentDb) IN
       /\ SetDb(r.db)
       /\ last' = Outcome("deleteAttachment", params, r.err, Null)
  /\ DbFrame

\* A subtask row of an existing task.  No procedure of the repository writes
\* functional.subtask; rows enter it as the data model describes (a subtask
\* belongs to a task of the same account).
SubtaskInsert(cap) ==
  /\ layer = "db" /\ identity.subtask < cap
  /\ \E r \in task :
       /\ r.deleted = FALSE
       /\ subtask' = subtask \cup
            {[ idSubtask |-> identity.subtask + 1,
               idAccount |-> r.idAccount,
               idTask |-> r.idTask,
               status |-> 0,
               orderIndex |-> identity.subtask + 1,
               dateCreated |-> now,
               dateModified |-> now,
               deleted |-> FALSE ]}
       /\ identity' = [identity EXCEPT !.subtask = @ + 1]
       /\ last' = Outcome("createSubtask", [idTask |-> r.idTask, idAccount |-> r.idAccount], "ok", Null)
  /\ UNCHANGED <<task, taskAttachment>> /\ DbFrame

\* The clock advances
Tick ==
  /\ now < MaxTime
  /\ now' = now + 1
  /\ UNCHANGED <<layer, tasks, attachments, task, taskAttachment, subtask, identity, sessions, last>>

----------------------------------------------------------------------------
\* Requests

Accounts == {1, 2}
Users == {1}
TaskIds == 1..MaxTasks
TitleOk == Str(0, TitleMinLength, 0)

AppCreateReq(A, T, Du, Dr) ==
  [ idAccount : A, idUser : Users, title : T, description : {Undefined}, dueDate : Du,
    priority : {Undefined}, isDraft : Dr, recurrenceType : {Undefined},
    recurrenceInterval : {Undefined}, recurrenceEndDate : {Undefined} ]

DbCreateReq(A, T, Du, Dr) ==
  [ idAccount : A, idUser : Users, title : T, description : {Undefined}, dueDate : Du,
    priority : {Undefined}, isDraft : Dr, recurrenceConfig : {Undefined} ]

AppUpdateReq(A, I, T, Du, S, Dr) ==
  [ idAccount : A, idTask : I, title : T, description : {Undefined}, dueDate : Du,
    priority : {Undefined}, status : S, isDraft : Dr ]

DbUpdateReq(A, I, T, Du, S, Dr) ==
  [ idAccount : A, idTask : I, title : T, description : {Undefined}, dueDate : Du,
    priority : {Undefined}, status : S, recurrenceConfig : {Undefined}, isDraft : Dr ]

TaskReq(A, I) == [idAccount : A, idTask : I]

ListReq(A, U, S, Dr) == [idAccount : A, idUser : U, status : S, isDraft : Dr]

AppAttachmentReq(A, I, Ty, Sz) ==
  [ idAccount : A, idTask : I, fileName : {"f"}, fileSize : Sz, fileType : Ty ]

DbAttachmentReq(A, I, Ty, Sz) ==
  [ idAccount : A, idTask : I, fileName : {"f"}, fileSize : Sz, fileType : Ty,
    storageUrl : {"url"} ]

AttachmentDeleteReq(A, I, K) == [idAccount : A, idTask : I, idTaskAttachment : K]

----------------------------------------------------------------------------
\* Spec: requests of two accounts, one at a time, against either implementation

Next ==
  \/ TaskCreate(AppCreateReq(Accounts, {TitleOk}, {Undefined}, {Undefined}), MaxTasks)
  \/ TaskList(ListReq(Accounts, {Some(1)}, {Undefined}, {Undefined}))
  \/ TaskGet(TaskReq(Accounts, TaskIds))
  \/ TaskUpdate(AppUpdateReq(Accounts, TaskIds, {Undefined}, {Undefined}, {Some(2)}, {Undefined}))
  \/ TaskDelete(TaskReq(Accounts, TaskIds))
  \/ TaskAttachmentCreate(AppAttachmentReq(Accounts, TaskIds, {"pdf"}, {1}), MaxAttach)
  \/ TaskAttachmentDelete(AttachmentDeleteReq(Accounts, TaskIds, 1..MaxAttach))
  \/ SpTaskCreate(DbCreateReq(Accounts, {TitleOk}, {Undefined}, {Undefined}), MaxTasks)
  \/ SpTaskGet(TaskReq(Accounts, TaskIds))
  \/ SpTaskUpdate(DbUpdateReq(Accounts, TaskIds, {Undefined}, {Undefined}, {Some(2)}, {Undefined}))
  \/ SpTaskDelete(TaskReq(Accounts, TaskIds))
  \/ SpTaskAttachmentCreate(DbAttachmentReq(Accounts, TaskIds, {"pdf"}, {1}), MaxAttach)
  \/ SpTaskAttachmentDelete(AttachmentDeleteReq(Accounts, TaskIds, 1..MaxAttach))
  \/ SubtaskInsert(MaxSubtasks)

Spec == Init /\ [][Next]_vars

----------------------------------------------------------------------------
\* SpecAttach: createTask, createAttachment, deleteAttachment and deleteTask of
\* one account on one task, one at a time, up to and beyond the attachment ceiling

AttachCap == 6
AttachTaskIds == {1}

NextAttach ==
  \/ TaskCreate(AppCreateReq({1}, {TitleOk}, {Undefined}, {Undefined}), Cardinality(AttachTaskIds))
  \/ TaskDelete(TaskReq({1}, AttachTaskIds))
  \/ TaskAttachmentCreate(AppAttachmentReq({1}, AttachTaskIds, {"pdf"}, {1}), AttachCap)
  \/ TaskAttachmentDelete(AttachmentDeleteReq({1}, AttachTaskIds, 1..AttachCap))
  \/ SpTaskCreate(DbCreateReq({1}, {TitleOk}, {Undefined}, {Undefined}), Cardinality(AttachTaskIds))
  \/ SpTaskDelete(TaskReq({1}, AttachTaskIds))
  \/ SpTaskAttachmentCreate(DbAttachmentReq({1}, AttachTaskIds, {"pdf"}, {1}), AttachCap)
  \/ SpTaskAttachmentDelete(AttachmentDeleteReq({1}, AttachTaskIds, 1..AttachCap))

SpecAttach == Init /\ [][NextAttach]_vars

----------------------------------------------------------------------------
\* SpecConc: the stored procedures run in concurrent sessions.  A statement
\* outside BEGIN TRAN ... COMMIT TRAN commits on its own, so another session's
\* statements can run between the checks of a procedure and its transaction;
\* the statements of a transaction become visible together at COMMIT.  The
\* application rules hold no await: a call runs to completion.

\* spTaskAttachmentCreate, from its first statement to the IF on @attachmentCount
SpTaskAttachmentCreate_Check(P, cap) ==
  /\ layer = "db" /\ identity.taskAttachment < cap
  /\ \E s \in DOMAIN sessions, params \in P :
       /\ sessions[s] = Idle
       /\ LET err == spTaskAttachmentCreateError(params, CurrentDb) IN
          IF err # "ok"
          THEN /\ last' = Outcome("createAttachment", params, err, Null)
               /\ UNCHANGED sessions
          ELSE /\ sessions' = [sessions EXCEPT
                                 ![s] = [pc |-> "spTaskAttachmentCreate", params |-> params]]
               /\ UNCHANGED last
  /\ UNCHANGED <<layer, now, tasks, attachments, task, taskAttachment, subtask, identity>>

\* spTaskAttachmentCreate, BEGIN TRAN ... COMMIT TRAN
SpTaskAttachmentCreate_Tran ==
  /\ layer = "db"
  /\ \E s \in DOMAIN sessions :
       /\ sessions[s].pc = "spTaskAttachmentCreate"
       /\ SetDb(spTaskAttachmentInsert(CurrentDb, sessions[s].params, now))
       /\ last' = Outcome("createAttachment", sessions[s].params, "ok",
                          Some(identity.taskAttachment + 1))
       /\ sessions' = [sessions EXCEPT ![s] = Idle]
  /\ UNCHANGED <<layer, now, tasks, attachments>>

\* spTaskDelete, the existence check
SpTaskDelete_Check(P) ==
  /\ layer = "db"
  /\ \E s \in DOMAIN sessions, params \in P :
       /\ sessions[s] = Idle
       /\ IF ~spTaskExists(CurrentDb, params.idTask, params.idAccount)
          THEN /\ last' = Outcome("deleteTask", params, "taskNotFound", Null)
               /\ UNCHANGED sessions
          ELSE /\ sessions' = [sessions EXCEPT
                                 ![s] = [pc |-> "spTaskDelete", params |-> params]]
               /\ UNCHANGED last
  /\ UNCHANGED <<layer, now, tasks, attachments, task, taskAttachment, subtask, identity>>

\* spTaskDelete, BEGIN TRAN ... COMMIT TRAN
SpTaskDelete_Tran ==
  /\ layer = "db"
  /\ \E s \in DOMAIN sessions :
       /\ sessions[s].pc = "spTaskDelete"
       /\ SetDb(spTaskDeleteTran(CurrentDb, sessions[s].params.idTask,
                                 sessions[s].params.idAccount, now))
       /\ last' = Outcome("deleteTask", sessions[s].params, "ok", Null)
       /\ sessions' = [sessions EXCEPT ![s] = Idle]
  /\ UNCHANGED <<layer, now, tasks, attachments>>

NextConc ==
  \/ TaskCreate(AppCreateReq({1}, {TitleOk}, {Undefined}, {Undefined}), Cardinality(AttachTaskIds))
  \/ TaskDelete(TaskReq({1}, AttachTaskIds))
  \/ TaskAttachmentCreate(AppAttachmentReq({1}, AttachTaskIds, {"pdf"}, {1}), AttachCap)
  \/ SpTaskCreate(DbCreateReq({1}, {TitleOk}, {Undefined}, {Undefined}), Cardinality(AttachTaskIds))
  \/ SubtaskInsert(MaxSubtasks)
  \/ SpTaskAttachmentCreate_Check(DbAttachmentReq({1}, AttachTaskIds, {"pdf"}, {1}), AttachCap)
  \/ SpTaskAttachmentCreate_Tran
  \/ SpTaskDelete_Check(TaskReq({1}, AttachTaskIds))
  \/ SpTaskDelete_Tran

SpecConc == Init /\ [][NextConc]_vars

----------------------------------------------------------------------------
\* SpecStatus: createTask and updateTask of one account with every combination of
\* isDraft and status, one call at a time

StatusTasks == 2
StatusTaskIds == 1..StatusTasks

DraftFlags == {Undefined, Some(TRUE), Some(FALSE)}
Statuses == {Undefined} \cup {Some(st) : st \in 0..4}

NextStatus ==
  \/ TaskCreate(AppCreateReq({1}, {TitleOk}, {Undefined}, DraftFlags), StatusTasks)
  \/ TaskUpdate(AppUpdateReq({1}, StatusTaskIds, {Undefined}, {Undefined}, Statuses, DraftFlags))
  \/ SpTaskCreate(DbCreateReq({1}, {TitleOk}, {Undefined}, DraftFlags), StatusTasks)
  \/ SpTaskUpdate(DbUpdateReq({1}, StatusTaskIds, {Undefined}, {Undefined}, Statuses, DraftFlags))

SpecStatus == Init /\ [][NextStatus]_vars

----------------------------------------------------------------------------
\* SpecTitle: createTask and updateTask of one account with titles around the
\* limits, blanks before and after the text included, one call at a time

Titles ==
  { Str(0, 0, 0), Str(2, 0, 0),
    Str(0, TitleMinLength - 1, 0), Str(1, TitleMinLength - 1, 1),
    Str(0, TitleMinLength, 0), Str(1, TitleMinLength, 1),
    Str(0, TitleMaxLength, 0), Str(1, TitleMaxLength, 0), Str(0, TitleMaxLength, 1),
    Str(0, TitleMaxLength + 1, 0) }

NextTitle ==
  \/ TaskCreate(AppCreateReq({1}, Titles, {Undefined}, {Undefined}), StatusTasks)
  \/ TaskUpdate(AppUpdateReq({1}, StatusTaskIds, Titles, {Undefined}, {Undefined}, {Undefined}))
  \/ SpTaskCreate(DbCreateReq({1}, Titles, {Undefined}, {Undefined}), StatusTasks)
  \/ SpTaskUpdate(DbUpdateReq({1}, StatusTaskIds, Titles, {Undefined}, {Undefined}, {Undefined}))

SpecTitle == Init /\ [][NextTitle]_vars

----------------------------------------------------------------------------
\* SpecDue: createTask and updateTask of one account on one task with due dates
\* before, on and after the current day, while the clock advances

DueDates == {Undefined} \cup {Some(d) : d \in 0..MaxTime}

NextDue ==
  \/ TaskCreate(AppCreateReq({1}, {TitleOk}, DueDates, {Undefined}), Cardinality(AttachTaskIds))
  \/ TaskUpdate(AppUpdateReq({1}, AttachTaskIds, {Undefined}, DueDates, {Undefined}, {Undefined}))
  \/ SpTaskCreate(DbCreateReq({1}, {TitleOk}, DueDates, {Undefined}), Cardinality(AttachTaskIds))
  \/ SpTaskUpdate(DbUpdateReq({1}, AttachTaskIds, {Undefined}, DueDates, {Undefined}, {Undefined}))
  \/ Tick

SpecDue == Init /\ [][NextDue]_vars

----------------------------------------------------------------------------
\* SpecFields: createTask and updateTask of one account with titles around the
\* limits and priorities and statuses inside and outside their ranges, one call
\* at a time

Priorities == {Undefined} \cup {Some(pr) : pr \in 0..3}
StatusesWide == {Undefined, Some(4), Some(5)}
TitlesOnUpdate ==
  { Undefined, Str(1, TitleMinLength - 1, 1), Str(1, TitleMaxLength, 0),
    Str(0, TitleMaxLength + 1, 0) }

NextFields ==
  \/ TaskCreate([ idAccount : {1}, idUser : Users, title : Titles, description : {Undefined},
                  dueDate : {Undefined}, priority : Priorities, isDraft : {Undefined},
                  recurrenceType : {Undefined}, recurrenceInterval : {Undefined},
                  recurrenceEndDate : {Undefined} ], MaxTasks)
  \/ TaskUpdate([ idAccount : {1}, idTask : TaskIds, title : TitlesOnUpdate,
                  description : {Undefined}, dueDate : {Undefined}, priority : Priorities,
                  status : StatusesWide, isDraft : {Undefined} ])
  \/ SpTaskCreate([ idAccount : {1}, idUser : Users, title : Titles, description : {Undefined},
                    dueDate : {Undefined}, priority : Priorities, isDraft : {Undefined},
                    recurrenceConfig : {Undefined} ], MaxTasks)
  \/ SpTaskUpdate([ idAccount : {1}, idTask : TaskIds, title : TitlesOnUpdate,
                    description : {Undefined}, dueDate : {Undefined}, priority : Priorities,
                    status : StatusesWide, recurrenceConfig : {Undefined},
                    isDraft : {Undefined} ])

SpecFields == Init /\ [][NextFields]_vars

----------------------------------------------------------------------------
\* SpecOrder: createTask and updateTask of one account where each field is either
\* absent, valid or invalid, several of them invalid in one call, one call at a
\* time

TitlesMixed == {TitleOk, Str(2, 0, 0), Str(0, TitleMinLength - 1, 0), Str(0, TitleMaxLength + 1, 0)}
DescriptionsMixed == {Undefined, Some(DescriptionMaxLength + 1)}
DueDatesMixed == {Undefined, Some(0)}
PrioritiesMixed == {Undefined, Some(3)}
StatusesMixed == {Undefined, Some(5)}
RecurrenceTypesMixed == {Undefined, Some("hourly")}
RecurrenceConfigsMixed == {Undefined, Some(<<"text">>)}

NextOrder ==
  \/ TaskCreate([ idAccount : {1}, idUser : Users, title : TitlesMixed,
                  description : DescriptionsMixed, dueDate : DueDatesMixed,
                  priority : PrioritiesMixed, isDraft : {Undefined},
                  recurrenceType : RecurrenceTypesMixed, recurrenceInterval : {Undefined},
                  recurrenceEndDate : {Undefined} ], MaxTasks)
  \/ TaskUpdate([ idAccount : {1}, idTask : TaskIds, title : {Undefined} \cup TitlesMixed,
                  description : DescriptionsMixed, dueDate : DueDatesMixed,
                  priority : PrioritiesMixed, status : StatusesMixed, isDraft : {Undefined} ])
  \/ SpTaskCreate([ idAccount : {1}, idUser : Users, title : TitlesMixed,
                    description : DescriptionsMixed, dueDate : DueDatesMixed,
                    priority : PrioritiesMixed, isDraft : {Undefined},
                    recurrenceConfig : RecurrenceConfigsMixed ], MaxTasks)
  \/ SpTaskUpdate([ idAccount : {1}, idTask : TaskIds, title : {Undefined} \cup TitlesMixed,
                    description : DescriptionsMixed, dueDate : DueDatesMixed,
                    priority : PrioritiesMixed, status : StatusesMixed,
                    recurrenceConfig : RecurrenceConfigsMixed, isDraft : {Undefined} ])

SpecOrder == Init /\ [][NextOrder]_vars

----------------------------------------------------------------------------
\* SpecRecurrence: one task of one account created, read and updated with
\* recurrence descriptors of every kind; the clock stands at the start of day 1

RecTypes == {Undefined, Some("daily"), Some("hourly")}
RecIntervals == {Undefined, Some(0), Some(1), Some(RecurrenceIntervalMax), Some(RecurrenceIntervalMax + 1)}
RecEndDates == {Undefined, Some(0), Some(TicksPerDay), Some(TicksPerDay + 1), Some(2 * TicksPerDay)}

\* The descriptors an HTTP body carries
BodyConfigs ==
  {Undefined} \cup
  {Some(c) : c \in [ type : {"diaria", "daily"}, interval : {0, 1, RecurrenceIntervalMax + 1},
                     endDate : {Undefined, Some(TicksPerDay), Some(2 * TicksPerDay)} ]}

\* The texts of @recurrenceConfig: none, empty, not JSON, JSON of a descriptor
DbConfigs ==
  {Undefined, Some(EmptyText), Some(<<"text">>)} \cup
  {Some(<<"json", c>>) : c \in [ type : {"daily", "hourly"}, interval : {1, RecurrenceIntervalMax + 1},
                                endDate : {Null, Some(TicksPerDay), Some(2 * TicksPerDay)} ]}

NextRecurrence ==
  \/ TaskCreate([ idAccount : {1}, idUser : Users, title : {TitleOk}, description : {Undefined},
                  dueDate : {Undefined}, priority : {Undefined}, isDraft : {Undefined},
                  recurrenceType : RecTypes, recurrenceInterval : RecIntervals,
                  recurrenceEndDate : RecEndDates ], MaxTasks)
  \/ PostHandler([ idAccount : {1}, idUser : Users, title : {TitleOk}, description : {Undefined},
                   dueDate : {Undefined}, priority : {Undefined}, isDraft : {Undefined},
                   recurrenceConfig : BodyConfigs ], MaxTasks)
  \/ TaskUpdate([ idAccount : {1}, idTask : TaskIds, title : {Undefined}, description : {Undefined},
                  dueDate : {Undefined}, priority : {Undefined}, status : {Undefined},
                  isDraft : {Undefined}, recurrenceConfig : {Undefined, Null} ])
  \/ TaskGet(TaskReq({1}, TaskIds))
  \/ SpTaskCreate([ idAccount : {1}, idUser : Users, title : {TitleOk}, description : {Undefined},
                    dueDate : {Undefined}, priority : {Undefined}, isDraft : {Undefined},
                    recurrenceConfig : DbConfigs ], MaxTasks)
  \/ SpTaskUpdate([ idAccount : {1}, idTask : TaskIds, title : {Undefined}, description : {Undefined},
                    dueDate : {Undefined}, priority : {Undefined}, status : {Undefined},
                    recurrenceConfig : DbConfigs, isDraft : {Undefined} ])
  \/ SpTaskGet(TaskReq({1}, TaskIds))

SpecRecurrence == Init /\ [][NextRecurrence]_vars

----------------------------------------------------------------------------
\* SpecFile: createAttachment by two accounts on the task of account 1, before
\* it exists, while it lives and after its deletion, with files of a listed and
\* an unlisted type and of sizes 0, the limit and one byte more

FileTypes == {"pdf", "exe"}
FileSizes == {0, MaxFileSize, MaxFileSize + 1}

NextFile ==
  \/ TaskCreate(AppCreateReq({1}, {TitleOk}, {Undefined}, {Undefined}), Cardinality(AttachTaskIds))
  \/ TaskDelete(TaskReq({1}, AttachTaskIds))
  \/ TaskAttachmentCreate(AppAttachmentReq(Accounts, AttachTaskIds, FileTypes, FileSizes), AttachCap)
  \/ SpTaskCreate(DbCreateReq({1}, {TitleOk}, {Undefined}, {Undefined}), Cardinality(AttachTaskIds))
  \/ SpTaskDelete(TaskReq({1}, AttachTaskIds))
  \/ SpTaskAttachmentCreate(DbAttachmentReq(Accounts, AttachTaskIds, FileTypes, FileSizes), AttachCap)

SpecFile == Init /\ [][NextFile]_vars

----------------------------------------------------------------------------
\* SpecList: tasks of two users of one account, drafts and active, created,
\* deleted and listed by the rule and through the HTTP handler, with each
\* filter given or left out (listing exists only as an application rule)

ListUsers == {1, 2}
ListUserFilters == {Undefined} \cup {Some(u) : u \in ListUsers}
ListStatusFilters == {Undefined, Some(StatusDraft), Some(StatusPending)}
ListDraftFilters == {Undefined, Some(TRUE), Some(FALSE)}

NextList ==
  \/ TaskCreate([ idAccount : {1}, idUser : ListUsers, title : {TitleOk}, description : {Undefined},
                  dueDate : {Undefined}, priority : {Undefined}, isDraft : {Undefined, Some(TRUE)},
                  recurrenceType : {Undefined}, recurrenceInterval : {Undefined},
                  recurrenceEndDate : {Undefined} ], StatusTasks)
  \/ TaskDelete(TaskReq({1}, StatusTaskIds))
  \/ TaskList(ListReq(Accounts, ListUserFilters, ListStatusFilters, ListDraftFilters))
  \/ ListHandler([ idAccount : Accounts, idUser : ListUserFilters,
                   statusFilter : ListStatusFilters, showDrafts : ListDraftFilters ])

SpecList == Init /\ [][NextList]_vars

----------------------------------------------------------------------------
\* SpecUrgent: one task with or without a due date, its status updated, listed
\* while the clock advances past its due date

UrgentDueDates == {Undefined} \cup {Some(d) : d \in TicksPerDay..MaxTime}
UrgentStatuses == {Some(2), Some(3), Some(4)}

NextUrgent ==
  \/ TaskCreate(AppCreateReq({1}, {TitleOk}, UrgentDueDates, {Undefined}), MaxTasks)
  \/ TaskUpdate(AppUpdateReq({1}, TaskIds, {Undefined}, {Undefined}, UrgentStatuses, {Undefined}))
  \/ TaskList(ListReq({1}, {Some(1)}, {Undefined}, {Undefined}))
  \/ Tick

SpecUrgent == Init /\ [][NextUrgent]_vars

----------------------------------------------------------------------------
\* SpecSort: up to SortTasks tasks of one user, drafts and active, of two
\* priorities, with and without due date, created at several instants and listed

SortTasks == 3
SortDueDates == {Undefined, Some(TicksPerDay), Some(2 * TicksPerDay)}
SortPriorities == {Undefined, Some(2)}
SortDrafts == {Undefined, Some(TRUE)}

NextSort ==
  \/ TaskCreate([ idAccount : {1}, idUser : Users, title : {TitleOk}, description : {Undefined},
                  dueDate : SortDueDates, priority : SortPriorities, isDraft : SortDrafts,
                  recurrenceType : {Undefined}, recurrenceInterval : {Undefined},
                  recurrenceEndDate : {Undefined} ], SortTasks)
  \/ TaskList(ListReq({1}, {Some(1)}, {Undefined}, {Undefined}))
  \/ Tick

SpecSort == Init /\ [][NextSort]_vars

----------------------------------------------------------------------------
\* SpecFail: every operation on the task of account 1, with requests that pass
\* and requests that break one or several rules, against either implementation

TitleOther == Str(0, TitleMinLength + 1, 0)
FailTitles == {Undefined, TitleOther, Str(0, TitleMinLength - 1, 0)}

NextFail ==
  \/ TaskCreate([ idAccount : {1}, idUser : Users, title : {TitleOk, Str(0, TitleMaxLength + 1, 0)},
                  description : DescriptionsMixed, dueDate : DueDatesMixed,
                  priority : {Undefined}, isDraft : {Undefined},
                  recurrenceType : RecurrenceTypesMixed, recurrenceInterval : {Undefined},
                  recurrenceEndDate : {Undefined} ], Cardinality(AttachTaskIds))
  \/ TaskUpdate([ idAccount : {1}, idTask : AttachTaskIds, title : FailTitles,
                  description : DescriptionsMixed, dueDate : DueDatesMixed,
                  priority : {Undefined}, status : {Undefined}, isDraft : {Undefined} ])
  \/ TaskGet(TaskReq(Accounts, AttachTaskIds))
  \/ TaskDelete(TaskReq(Accounts, AttachTaskIds))
  \/ TaskAttachmentCreate(AppAttachmentReq({1}, AttachTaskIds, FileTypes, {1}), AttachCap)
  \/ TaskAttachmentDelete(AttachmentDeleteReq(Accounts, AttachTaskIds, {AttachCap - 1}))
  \/ SpTaskCreate([ idAccount : {1}, idUser : Users, title : {TitleOk, Str(0, TitleMinLength - 1, 0)},
                    description : {Undefined}, dueDate : DueDatesMixed,
                    priority : PrioritiesMixed, isDraft : {Undefined},
                    recurrenceConfig : RecurrenceConfigsMixed ], Cardinality(AttachTaskIds))
  \/ SpTaskUpdate([ idAccount : {1}, idTask : AttachTaskIds, title : FailTitles,
                    description : {Undefined}, dueDate : DueDatesMixed,
                    priority : PrioritiesMixed, status : StatusesMixed,
                    recurrenceConfig : RecurrenceConfigsMixed, isDraft : {Undefined} ])
  \/ SpTaskGet(TaskReq(Accounts, AttachTaskIds))
  \/ SpTaskDelete(TaskReq(Accounts, AttachTaskIds))
  \/ SpTaskAttachmentCreate(DbAttachmentReq({1}, AttachTaskIds, FileTypes, {1}), AttachCap)
  \/ SpTaskAttachmentDelete(AttachmentDeleteReq(Accounts, AttachTaskIds, {AttachCap - 1}))
  \/ SubtaskInsert(MaxSubtasks)

SpecFail == Init /\ [][NextFail]_vars

----------------------------------------------------------------------------
\* SpecHttp: the HTTP handlers of task creation, task detail and attachments,
\* called with valid and invalid requests on a task that is created and deleted

HttpTitles == {TitleOk, Str(TitleMinLength, 0, 0), Str(0, TitleMinLength - 1, 0)}
HttpIds == 0..(Cardinality(AttachTaskIds) + 1)
HttpFiles == [ fileName : {"f"}, fileType : FileTypes, fileSize : {1, MaxFileSize + 1} ]

NextHttp ==
  \/ PostHandler([ idAccount : {1}, idUser : Users, title : HttpTitles, description : DescriptionsMixed,
                   dueDate : DueDatesMixed, priority : PrioritiesMixed, isDraft : {Undefined},
                   recurrenceConfig : {Undefined} ], Cardinality(AttachTaskIds))
  \/ GetHandler(HttpIds)
  \/ TaskDelete(TaskReq({1}, AttachTaskIds))
  \/ CreateHandler(HttpIds, HttpFiles, AttachCap)
  \/ DeleteHandler(HttpIds, {0, AttachCap - 1})

SpecHttp == Init /\ [][NextHttp]_vars

----------------------------------------------------------------------------
\* The number of stored tasks, soft-deleted ones included
TaskTotal == IF layer = "app" THEN Len(tasks) ELSE Cardinality(task)

----------------------------------------------------------------------------
\* SpecTwice: the same createTask request submitted again and again, at one
\* instant or later, with getTask and deleteTask in between, one call at a time

TwiceTasks == 2
TwiceTaskIds == 1..TwiceTasks

NextTwice ==
  \/ TaskCreate(AppCreateReq({1}, {TitleOk}, {Undefined}, {Undefined, Some(TRUE)}), TwiceTasks)
  \/ TaskGet(TaskReq({1}, TwiceTaskIds))
  \/ TaskDelete(TaskReq({1}, TwiceTaskIds))
  \/ SpTaskCreate(DbCreateReq({1}, {TitleOk}, {Undefined}, {Undefined, Some(TRUE)}), TwiceTasks)
  \/ SpTaskGet(TaskReq({1}, TwiceTaskIds))
  \/ SpTaskDelete(TaskReq({1}, TwiceTaskIds))
  \/ Tick

SpecTwice == Init /\ [][NextTwice]_vars

----------------------------------------------------------------------------
\* SpecKeep: updateTask of the first of two tasks, both created as drafts, with
\* no field, one field or every field given, the task having a subtask and an
\* attachment, the clock advancing once after both tasks are stored, one call
\* at a time

KeepMaxTime == TicksPerDay + 1
KeepTaskIds == {1, 2}
KeepAttachmentIds == {1}
KeepSubtaskIds == {1}
KeepFields == {"title", "description", "dueDate", "priority", "status", "isDraft"}

KeepValue(f) ==
  CASE f = "title" -> TitleOther
    [] f = "description" -> Some(1)
    [] f = "dueDate" -> Some(2 * TicksPerDay)
    [] f = "priority" -> Some(2)
    [] f = "status" -> Some(2)
    [] f = "isDraft" -> Some(FALSE)
    [] f = "recurrenceConfig" -> Some(<<"json", [type |-> "daily", interval |-> 1, endDate |-> Null]>>)

KeepNone == [ idAccount |-> 1, idTask |-> 1, title |-> Undefined, description |-> Undefined,
              dueDate |-> Undefined, priority |-> Undefined, status |-> Undefined,
              isDraft |-> Undefined ]

KeepAppRequests ==
  {KeepNone, [f \in DOMAIN KeepNone |-> IF f \in KeepFields THEN KeepValue(f) ELSE KeepNone[f]]}
  \cup {[KeepNone EXCEPT ![f] = KeepValue(f)] : f \in KeepFields}

\* The same for the procedure, which takes @recurrenceConfig too: left out,
\* a descriptor, or the empty text
KeepDbRequests ==
  {[f \in DOMAIN r \cup {"recurrenceConfig"} |-> IF f = "recurrenceConfig" THEN Undefined ELSE r[f]] :
     r \in KeepAppRequests}
  \cup {[f \in DOMAIN KeepNone \cup {"recurrenceConfig"} |->
          IF f = "recurrenceConfig" THEN c ELSE KeepNone[f]] :
          c \in {KeepValue("recurrenceConfig"), Some(EmptyText)}}

NextKeep ==
  \/ TaskCreate(AppCreateReq({1}, {TitleOk}, {Undefined}, {Some(TRUE)}), Cardinality(KeepTaskIds))
  \/ TaskUpdate(KeepAppRequests)
  \/ TaskAttachmentCreate(AppAttachmentReq({1}, {1}, {"pdf"}, {1}), Cardinality(KeepAttachmentIds))
  \/ SpTaskCreate(DbCreateReq({1}, {TitleOk}, {Undefined}, {Some(TRUE)}), Cardinality(KeepTaskIds))
  \/ SpTaskUpdate(KeepDbRequests)
  \/ SpTaskAttachmentCreate(DbAttachmentReq({1}, {1}, {"pdf"}, {1}), Cardinality(KeepAttachmentIds))
  \/ SubtaskInsert(Cardinality(KeepSubtaskIds))
  \/ Tick /\ now < KeepMaxTime /\ TaskTotal = Cardinality(KeepTaskIds)

SpecKeep == Init /\ [][NextKeep]_vars

----------------------------------------------------------------------------
\* Views of the store of the implementation in use

TaskRows == IF layer = "app" THEN {tasks[i] : i \in 1..Len(tasks)} ELSE task

\* The task a request names is stored under its account and not soft-deleted
TaskLive(idTask, idAccount) ==
  \E r \in TaskRows : r.idTask = idTask /\ r.idAccount = idAccount /\ ~r.deleted

AttachmentCount(idTask) ==
  IF layer = "app"
  THEN Cardinality({i \in 1..Len(attachments) : attachments[i].idTask = idTask})
  ELSE Cardinality({r \in taskAttachment : r.idTask = idTask})

\* The stored task of that identifier
TaskOf(idTask) == CHOOSE r \in TaskRows : r.idTask = idTask

HasTask(idTask) == \E r \in TaskRows : r.idTask = idTask

----------------------------------------------------------------------------
\* Claims

\* C1: whatever createTask, createAttachment, deleteAttachment and deleteTask
\* calls ran one at a time, a task has at most 5 attachments; a createAttachment
\* (valid file, live task) on a task with 5 attachments fails with
\* tooManyAttachments and adds nothing, and on a task with fewer than 5 (also
\* after a deleteAttachment brought it back below 5) it succeeds and adds one.
C1_AttachmentCeiling ==
  /\ [](\A id \in AttachTaskIds : AttachmentCount(id) <= 5)
  /\ [][ \A id \in AttachTaskIds, acc \in Accounts :
           (/\ last'.op = "createAttachment"
            /\ last'.params.idTask = id /\ last'.params.idAccount = acc
            /\ TaskLive(id, acc))
           => IF AttachmentCount(id) >= 5
              THEN /\ last'.err = "tooManyAttachments"
                   /\ UNCHANGED <<attachments, taskAttachment>>
              ELSE /\ last'.err = "ok"
                   /\ AttachmentCount(id)' = AttachmentCount(id) + 1 ]_vars

\* C1 witness: the sixth attachment of a task was refused
C1_Witness ==
  /\ last.op = "createAttachment"
  /\ last.err = "tooManyAttachments"
  /\ AttachmentCount(last.params.idTask) = 5

\* C2: under every interleaving of concurrent createAttachment requests on one
\* task, the count check and the insert act as one step: the task never holds
\* more than 5 attachments.
C2_AtomicCeiling ==
  \A id \in AttachTaskIds : AttachmentCount(id) <= MaxAttachmentsPerTask

C3_ExplicitStatusPrevails ==
  (/\ last.op = "updateTask" /\ last.err = "ok"
   /\ last.wasDraft
   /\ last.params.isDraft = Some(FALSE)
   /\ IsSome(last.params.status))
  => TaskOf(last.params.idTask).status = Get(last.params.status)

\* C4: an updateTask with isDraft=false and no status leaves a task that was a
\* draft with isDraft=false and status Pending, and leaves the status of a task
\* that was not a draft as it was.
C4_DraftExitDefault ==
  /\ []((/\ last.op = "updateTask" /\ last.err = "ok"
         /\ last.params.isDraft = Some(FALSE)
         /\ last.params.status = Undefined)
        => /\ TaskOf(last.params.idTask).isDraft = FALSE
           /\ last.wasDraft => TaskOf(last.params.idTask).status = StatusPending)
  /\ [][ \A id \in StatusTaskIds :
           (/\ last'.op = "updateTask" /\ last'.err = "ok"
            /\ last'.params.idTask = id
            /\ last'.params.isDraft = Some(FALSE)
            /\ last'.params.status = Undefined
            /\ ~last'.wasDraft)
           => /\ HasTask(id) /\ ~TaskOf(id).isDraft
              /\ TaskOf(id)'.status = TaskOf(id).status ]_vars

\* C4 witness: a draft left draft without a status and is Pending
C4_Witness ==
  /\ last.op = "updateTask" /\ last.err = "ok"
  /\ last.wasDraft
  /\ last.params.isDraft = Some(FALSE)
  /\ last.params.status = Undefined
  /\ TaskOf(last.params.idTask).status = StatusPending
  /\ TaskOf(last.params.idTask).isDraft = FALSE

\* C5: the task a createTask has just stored has status Draft exactly when
\* isDraft=true was supplied; otherwise (false or absent) its status is Pending
\* and its isDraft is false.
C5_InitialStatus ==
  (last.op = "createTask" /\ last.err = "ok")
  => LET r == TaskOf(Get(last.ret)) IN
     /\ (r.status = StatusDraft) <=> (last.params.isDraft = Some(TRUE))
     /\ (last.params.isDraft # Some(TRUE)) => (r.status = StatusPending /\ r.isDraft = FALSE)

\* C5 witness: a draft was created, then a task without isDraft, which is Pending
C5_Witness ==
  /\ last.op = "createTask" /\ last.err = "ok"
  /\ last.params.isDraft = Undefined
  /\ TaskOf(Get(last.ret)).status = StatusPending
  /\ \E r \in TaskRows : r.status = StatusDraft /\ r.isDraft

TaskOps == {"getTask", "updateTask", "deleteTask", "createAttachment"}

\* C7: once a task is soft-deleted, every later getTask, updateTask, deleteTask
\* and createAttachment that names it fails with taskNotFound, no listTasks
\* result holds it, and no operation clears its deleted flag.
C7_DeletedStaysGone ==
  /\ [][ \A r \in TaskRows :
           r.deleted =>
             /\ (last'.op \in TaskOps /\ last'.params.idTask = r.idTask)
                  => last'.err = "taskNotFound"
             /\ last'.op = "listTasks"
                  => \A i \in DOMAIN Get(last'.ret) : Get(last'.ret)[i] # r.idTask
             /\ \E q \in TaskRows' : q.idTask = r.idTask /\ q.deleted ]_vars
  /\ [](last.op = "listTasks"
        => \A i \in DOMAIN Get(last.ret) : ~TaskOf(Get(last.ret)[i]).deleted)

\* C7 witness: a createAttachment of the owning account on a soft-deleted task
\* was refused with taskNotFound
C7_Witness ==
  /\ last.op = "createAttachment" /\ last.err = "taskNotFound"
  /\ \E r \in TaskRows : /\ r.idTask = last.params.idTask
                          /\ r.idAccount = last.params.idAccount
                          /\ r.deleted

\* C8: getTask, updateTask, deleteTask, createAttachment and deleteAttachment
\* called with an account other than the one a task was created under fail with
\* taskNotFound (attachmentNotFound for deleteAttachment) and change no task,
\* subtask or attachment; a listTasks result holds only tasks of the account
\* that asked.
C8_AccountIsolation ==
  /\ [][ \A r \in TaskRows :
           (/\ last'.op \in TaskOps \cup {"deleteAttachment"}
            /\ last'.params.idTask = r.idTask
            /\ last'.params.idAccount # r.idAccount)
           => /\ last'.err = IF last'.op = "deleteAttachment"
                             THEN "attachmentNotFound" ELSE "taskNotFound"
              /\ UNCHANGED <<tasks, attachments, task, taskAttachment, subtask>> ]_vars
  /\ [](last.op = "listTasks"
        => \A i \in DOMAIN Get(last.ret) :
             TaskOf(Get(last.ret)[i]).idAccount = last.params.idAccount)

\* C8 witness: a deleteAttachment by another account, naming an attachment that
\* exists on the task, was refused
C8_Witness ==
  /\ last.op = "deleteAttachment" /\ last.err = "attachmentNotFound"
  /\ \E r \in TaskRows : /\ r.idTask = last.params.idTask
                          /\ r.idAccount # last.params.idAccount
                          /\ ~r.deleted
  /\ IF layer = "app"
     THEN \E i \in DOMAIN attachments :
            /\ attachments[i].idTaskAttachment = last.params.idTaskAttachment
            /\ attachments[i].idTask = last.params.idTask
     ELSE \E a \in taskAttachment :
            /\ a.idTaskAttachment = last.params.idTaskAttachment
            /\ a.idTask = last.params.idTask

\* The length of a title without the blanks around it
TrimmedLength(title) == title[2]

\* The day an instant falls on
DayOf(t) == t \div TicksPerDay

\* C9: createTask and updateTask (on a task that is found) fail with
\* titleTooShort when the title's trimmed length is below 3 (titleRequired for
\* an empty or blank title), accept a title whose trimmed length is in 3..100,
\* whatever its untrimmed length, and fail with titleTooLong when the trimmed
\* length is above 100.
C9_TitleByTrimmedLength ==
  (/\ last.op \in {"createTask", "updateTask"}
   /\ IsStr(last.params.title)
   /\ last.err # "taskNotFound")
  => LET n == TrimmedLength(last.params.title) IN
     /\ n < TitleMinLength
          => \/ last.err = "titleTooShort"
             \/ n = 0 /\ last.err = "titleRequired"
     /\ (n >= TitleMinLength /\ n <= TitleMaxLength) => last.err = "ok"
     /\ n > TitleMaxLength => last.err = "titleTooLong"

TaskWrites == {"createTask", "updateTask"}

\* C11: a createTask or updateTask (on a task that is found) carrying a priority
\* outside 0..2 fails with invalidPriority and no task holds such a priority; a
\* createTask without a priority stores priority 1.
C11_PriorityRange ==
  /\ (/\ last.op \in TaskWrites /\ last.err # "taskNotFound"
      /\ last.err \notin {"titleRequired", "titleTooShort", "titleTooLong"}
      /\ IsSome(last.params.priority)
      /\ Get(last.params.priority) \notin 0..2)
     => /\ last.err = "invalidPriority"
        /\ \A r \in TaskRows : r.priority \in 0..2
  /\ (last.op = "createTask" /\ last.err = "ok" /\ last.params.priority = Undefined)
     => TaskOf(Get(last.ret)).priority = PriorityMedium

\* C12: every stored task has a priority in 0..2, a status in 0..4 and a title
\* whose trimmed length is in 3..100; an updateTask (on a task that is found)
\* carrying a status outside 0..4 fails with invalidStatus.
C12_StoredRanges ==
  /\ \A r \in TaskRows :
       /\ r.priority \in 0..2
       /\ r.status \in 0..4
       /\ TrimmedLength(r.title) >= TitleMinLength
       /\ TrimmedLength(r.title) <= TitleMaxLength
  /\ (/\ last.op = "updateTask" /\ last.err # "taskNotFound"
      /\ IsSome(last.params.status)
      /\ Get(last.params.status) \notin 0..4
      /\ last.err \notin {"titleTooShort", "titleTooLong", "invalidPriority"})
     => last.err = "invalidStatus"

\* The error createTask gives for the title, description, dueDate and priority of
\* an updateTask request, under the implementation in use
CreateErrorFor(p) ==
  IF layer = "app"
  THEN taskCreateError([ idAccount |-> p.idAccount, idUser |-> 1, title |-> p.title,
                         description |-> p.description, dueDate |-> p.dueDate,
                         priority |-> p.priority, isDraft |-> Undefined,
                         recurrenceType |-> Undefined, recurrenceInterval |-> Undefined,
                         recurrenceEndDate |-> Undefined ], now)
  ELSE spTaskCreateError(spTaskCreateBind(
                       [ idAccount |-> p.idAccount, idUser |-> 1, title |-> p.title,
                         description |-> p.description, dueDate |-> p.dueDate,
                         priority |-> p.priority, isDraft |-> Undefined,
                         recurrenceConfig |-> Undefined ]), now)

\* C13: an updateTask on a task that is found, carrying a title and any
\* description, dueDate and priority (no status, no recurrence), is accepted
\* exactly when a createTask with the same values is, and otherwise fails with
\* the same error; an empty or blank title fails with titleRequired on both.
C13_SameValidation ==
  (/\ last.op = "updateTask" /\ last.err # "taskNotFound"
   /\ IsStr(last.params.title)
   /\ last.params.status = Undefined
   /\ layer = "db" => last.params.recurrenceConfig = Undefined)
  => /\ last.err = CreateErrorFor(last.params)
     /\ TrimmedLength(last.params.title) = 0 => last.err = "titleRequired"

\* The rule an error names
RuleOf(err) ==
  CASE err \in {"titleRequired", "titleTooShort", "titleTooLong"} -> "title"
    [] err = "descriptionTooLong" -> "description"
    [] err = "dueDateInPast" -> "dueDate"
    [] err \in {"invalidPriority", "invalidStatus"} -> "priorityOrStatus"
    [] err \in {"invalidRecurrenceType", "invalidRecurrenceInterval",
                "invalidRecurrenceEndDate", "invalidRecurrenceConfig"} -> "recurrence"
    [] OTHER -> "none"

\* The rules a createTask or updateTask request violates, in the order title,
\* description, dueDate, priority/status, recurrence
ViolatedRules(op, p) ==
  LET titleBad == /\ IsStr(p.title)
                  /\ \/ TrimmedLength(p.title) < TitleMinLength
                     \/ TrimmedLength(p.title) > TitleMaxLength
      descriptionBad == IsSome(p.description) /\ Get(p.description) > DescriptionMaxLength
      dueDateBad == IsSome(p.dueDate) /\ DayOf(Get(p.dueDate)) < DayOf(now)
      priorityBad == IsSome(p.priority) /\ Get(p.priority) \notin 0..2
      statusBad == op = "updateTask" /\ IsSome(p.status) /\ Get(p.status) \notin 0..4
      recurrenceBad ==
        IF layer = "db"
        THEN IsSome(p.recurrenceConfig) /\ ~ISJSON(Get(p.recurrenceConfig))
        ELSE /\ op = "createTask"
             /\ IsSome(p.recurrenceType) /\ Get(p.recurrenceType) \notin RecurrenceTypes
      Pick(bad, rule) == IF bad THEN <<rule>> ELSE <<>>
  IN Pick(titleBad, "title") \o Pick(descriptionBad, "description")
     \o Pick(dueDateBad, "dueDate") \o Pick(priorityBad \/ statusBad, "priorityOrStatus")
     \o Pick(recurrenceBad, "recurrence")

\* C14: a createTask or updateTask (on a task that is found) that violates
\* several rules at once fails with an error of the first rule it violates in
\* the order title, description, dueDate, priority/status, recurrence.
C14_FirstFailureWins ==
  (/\ last.op \in TaskWrites /\ last.err # "taskNotFound"
   /\ Len(ViolatedRules(last.op, last.params)) >= 2)
  => RuleOf(last.err) = Head(ViolatedRules(last.op, last.params))

\* The recurrence descriptor a creation request carries, as [type, interval,
\* endDate] in Some, or Null when it carries none
DescriptorOf(op, params) ==
  IF op = "postHandler"
  THEN IF IsSome(params.recurrenceConfig)
       THEN Some([ type |-> Get(params.recurrenceConfig).type,
                   interval |-> Some(Get(params.recurrenceConfig).interval),
                   endDate |-> Get(params.recurrenceConfig).endDate ])
       ELSE Null
  ELSE IF layer = "app"
  THEN IF IsSome(params.recurrenceType)
       THEN Some([ type |-> Get(params.recurrenceType), interval |-> params.recurrenceInterval,
                   endDate |-> params.recurrenceEndDate ])
       ELSE Null
  ELSE IF IsSome(params.recurrenceConfig) /\ ISJSON(Get(params.recurrenceConfig))
  THEN Some([ type |-> Get(params.recurrenceConfig)[2].type,
              interval |-> Some(Get(params.recurrenceConfig)[2].interval),
              endDate |-> Get(params.recurrenceConfig)[2].endDate ])
  ELSE Null

\* The error the stated rule gives a descriptor on the day of instant t
DescriptorError(d, t) ==
  IF d.type \notin {"daily", "weekly", "monthly", "yearly"} THEN "invalidRecurrenceType"
  ELSE IF ~IsSome(d.interval) \/ Get(d.interval) < 1 \/ Get(d.interval) > 365
       THEN "invalidRecurrenceInterval"
  ELSE IF IsSome(d.endDate) /\ DayOf(Get(d.endDate)) <= DayOf(t) THEN "invalidRecurrenceEndDate"
  ELSE "ok"

TaskCreations == {"createTask", "postHandler"}

\* C15: a creation request that carries a recurrence descriptor, flat or nested
\* in the HTTP body, ends as the descriptor rule says: ok only for a type among
\* daily/weekly/monthly/yearly, an interval in 1..365 and an end date absent or
\* after today, otherwise the matching error and no task written.
C15_DescriptorRule ==
  (/\ last.op \in TaskCreations
   /\ IsSome(DescriptorOf(last.op, last.params)))
  => /\ last.err = DescriptorError(Get(DescriptorOf(last.op, last.params)), now)
     /\ last.err # "ok" => last.ret = Null /\ Cardinality(TaskRows) < MaxTasks

\* What getTask answers for a task in the current state: the task object of
\* taskGet, the task row of spTaskGet's first result set
GetView(idTask, idAccount) ==
  IF layer = "app"
  THEN Get(taskGet([idTask |-> idTask, idAccount |-> idAccount], tasks, attachments).ret)
  ELSE CHOOSE r \in Get(spTaskGet([idTask |-> idTask, idAccount |-> idAccount], CurrentDb).ret).task : TRUE

\* The descriptor an answer of getTask carries under recurrenceConfig
ViewDescriptor(v) ==
  IF "recurrenceConfig" \in DOMAIN v /\ IsSome(v.recurrenceConfig) /\ ISJSON(Get(v.recurrenceConfig))
  THEN Some([ type |-> Get(v.recurrenceConfig)[2].type,
              interval |-> Some(Get(v.recurrenceConfig)[2].interval),
              endDate |-> Get(v.recurrenceConfig)[2].endDate ])
  ELSE Null

\* An update request that carries the empty descriptor: '' for the procedure,
\* null for the rule
EmptyDescriptor(params) ==
  /\ "recurrenceConfig" \in DOMAIN params
  /\ params.recurrenceConfig = (IF layer = "db" THEN Some(EmptyText) ELSE Null)

\* C16: right after a successful creation with a valid recurrence descriptor,
\* getTask answers isRecurring = true and a recurrenceConfig equal to the
\* descriptor; right after a successful updateTask with the empty descriptor,
\* getTask answers isRecurring = false and recurrenceConfig = null.
C16_RecurrenceRoundTrip ==
  /\ (/\ last.op \in TaskCreations /\ last.err = "ok"
      /\ IsSome(DescriptorOf(last.op, last.params))
      /\ DescriptorError(Get(DescriptorOf(last.op, last.params)), now) = "ok")
     => LET v == GetView(Get(last.ret), last.params.idAccount) IN
        /\ "isRecurring" \in DOMAIN v /\ v.isRecurring = TRUE
        /\ ViewDescriptor(v) = DescriptorOf(last.op, last.params)
  /\ (last.op = "updateTask" /\ last.err = "ok" /\ EmptyDescriptor(last.params))
     => LET v == GetView(last.params.idTask, last.params.idAccount) IN
        /\ "isRecurring" \in DOMAIN v /\ v.isRecurring = FALSE
        /\ "recurrenceConfig" \in DOMAIN v /\ v.recurrenceConfig = Null

\* C17: every stored task row has isRecurring = true exactly when its
\* recurrenceConfig is not null.
C17_RecurringIffConfig ==
  \A r \in task : r.isRecurring <=> (r.recurrenceConfig # Null)

\* The stated rules of createAttachment in their stated order, on the state
\* the request meets
AttachmentRule(params) ==
  IF ~TaskLive(params.idTask, params.idAccount) THEN "taskNotFound"
  ELSE IF params.fileType \notin {"pdf", "doc", "docx", "jpg", "png"} THEN "invalidFileFormat"
  ELSE IF params.fileSize <= 0 \/ params.fileSize > 5242880 THEN "fileTooLarge"
  ELSE IF AttachmentCount(params.idTask) >= 5 THEN "tooManyAttachments"
  ELSE "ok"

Matching(params) ==
  IF layer = "app"
  THEN Cardinality({i \in DOMAIN attachments : attachmentMatches(attachments[i], params)})
  ELSE Cardinality({r \in taskAttachment : spAttachmentMatches(r, params)})

AttachmentTotal == IF layer = "app" THEN Len(attachments) ELSE Cardinality(taskAttachment)

DeleteRequests == AttachmentDeleteReq(Accounts, AttachTaskIds, 1..AttachCap)

\* C19: a deleteAttachment succeeds exactly when an attachment of that
\* identifier is stored under that task and account; it then removes that
\* attachment and no other, and no attachment of that identifier, task and
\* account is left (the same call again fails); otherwise it fails with
\* attachmentNotFound and the stored attachments are unchanged.
C19_DeleteExactlyOne ==
  [][ \A p \in DeleteRequests :
        (last'.op = "deleteAttachment" /\ last'.params = p)
        => IF Matching(p) >= 1
           THEN /\ last'.err = "ok"
                /\ AttachmentTotal' = AttachmentTotal - 1
                /\ \A q \in DeleteRequests : q # p => Matching(q)' = Matching(q)
                /\ Matching(p)' = 0
           ELSE /\ last'.err = "attachmentNotFound"
                /\ UNCHANGED <<attachments, taskAttachment>>
    ]_vars

\* The tasks a listing must return: those of the account, not deleted, that
\* equal every filter that is given
Listed(idAccount, idUser, status, isDraft) ==
  { r.idTask : r \in { q \in TaskRows :
      /\ q.idAccount = idAccount /\ ~q.deleted
      /\ IsSome(idUser) => q.idUser = Get(idUser)
      /\ IsSome(status) => q.status = Get(status)
      /\ IsSome(isDraft) => q.isDraft = Get(isDraft) } }

\* The idTask values of a listing result
ResultIds(ret) == {Get(ret)[i] : i \in DOMAIN Get(ret)}

\* C20: a listTasks result holds exactly the tasks of the account that are not
\* deleted and equal every filter given (a filter left out, userId included,
\* restricts nothing), each once; a listing through the HTTP handler holds
\* exactly those that equal its statusFilter and showDrafts.
C20_ListExactly ==
  /\ last.op = "listTasks"
       => /\ ResultIds(last.ret) = Listed(last.params.idAccount, last.params.idUser,
                                         last.params.status, last.params.isDraft)
          /\ Len(Get(last.ret)) = Cardinality(ResultIds(last.ret))
  /\ (last.op = "listHandler" /\ last.err = "ok")
       => /\ ResultIds(last.ret) = Listed(last.params.idAccount, last.params.idUser,
                                         last.params.statusFilter, last.params.showDrafts)
          /\ Len(Get(last.ret)) = Cardinality(ResultIds(last.ret))

\* C21: in every listTasks result a task's urgent flag is true exactly when it
\* has a due date that is not before today and not after 24 hours from now and
\* its status is neither Completed (3) nor Cancelled (4); an overdue task is not
\* flagged.
C21_UrgentWindow ==
  last.op = "listTasks"
  => \A i \in DOMAIN last.list :
       LET s == last.list[i] IN
       (s.isUrgent = Some(TRUE))
         <=> /\ s.dueDate # Null
             /\ DayOf(Get(s.dueDate)) >= DayOf(last.at)
             /\ Get(s.dueDate) <= last.at + TicksPerDay
             /\ s.status \notin {3, 4}

\* The stated order: a comes strictly before b when a is a draft and b is not,
\* else by higher priority, else by earlier due date with a task lacking one
\* after every task that has one, else by later creation
StatedBefore(a, b) ==
  IF a.isDraft # b.isDraft THEN a.isDraft
  ELSE IF a.priority # b.priority THEN a.priority > b.priority
  ELSE IF (a.dueDate = Null) # (b.dueDate = Null) THEN b.dueDate = Null
  ELSE IF a.dueDate # Null /\ Get(a.dueDate) # Get(b.dueDate)
       THEN Get(a.dueDate) < Get(b.dueDate)
  ELSE a.dateCreated > b.dateCreated

\* C22: in every listTasks result no element is greater than its successor
\* under the order drafts first, priority descending, due date ascending with
\* missing due dates last, creation descending.
C22_ListSorted ==
  last.op = "listTasks"
  => \A i \in 1..(Len(last.list) - 1) : ~StatedBefore(last.list[i + 1], last.list[i])

\* C27: the comparison function of taskList is antisymmetric and transitive on
\* the summaries of the stored tasks, and the sorted result is the same for
\* every input order.
C27_ConsistentOrdering ==
  LET S == {taskSummary(tasks[i], now) : i \in DOMAIN tasks} IN
  /\ \A a, b \in S : compareTasks(a, b) < 0 => compareTasks(b, a) > 0
  /\ \A a, b, c \in S :
       (compareTasks(a, b) < 0 /\ compareTasks(b, c) < 0) => compareTasks(a, c) < 0
  /\ last.op = "listTasks"
       => \A i \in DOMAIN last.list : \A j \in DOMAIN last.list :
            i < j => compareTasks(last.list[i], last.list[j]) <= 0

\* C23: an operation that fails, whatever its error, leaves the stored tasks,
\* subtasks and attachments exactly as they were before the call.
C23_FailureChangesNothing ==
  [][ last'.err # "ok" => UNCHANGED <<tasks, attachments, task, taskAttachment, subtask>> ]_vars

\* C23 witness: an updateTask that carried a valid new title together with a
\* value that breaks a later rule failed, and the stored title is the old one
C23_Witness ==
  /\ last.op = "updateTask"
  /\ last.err \in {"descriptionTooLong", "dueDateInPast", "invalidPriority", "invalidStatus",
                   "invalidRecurrenceConfig"}
  /\ last.params.title = TitleOther
  /\ TaskLive(last.params.idTask, last.params.idAccount)
  /\ TaskOf(last.params.idTask).title = TitleOk

NotFoundErrors == {"taskNotFound", "attachmentNotFound"}

\* C24: an HTTP handler answers 404 for a not-found failure of the rule it
\* calls and 400 for every other named failure; no named failure goes to the
\* generic fault handler; GET /task/:id for a missing or deleted task answers 404.
C24_StatusMapping ==
  (/\ "status" \in DOMAIN last
   /\ last.err # "ok")
  => last.status = IF last.err \in NotFoundErrors THEN "404" ELSE "400"

\* C25: an updateTask that names a stored, non-deleted task and a status t in
\* 0..4, and does not take the task out of draft in the same call, succeeds and
\* leaves the task with status t, whatever its status was.
C25_AnyTransition ==
  [][ \A id \in StatusTaskIds :
        (/\ last'.op = "updateTask"
         /\ last'.params.idTask = id
         /\ TaskLive(id, last'.params.idAccount)
         /\ IsSome(last'.params.status) /\ Get(last'.params.status) \in 0..4
         /\ ~(TaskOf(id).isDraft /\ last'.params.isDraft = Some(FALSE)))
        => /\ last'.err = "ok"
           /\ TaskOf(id)'.status = Get(last'.params.status)
    ]_vars

\* C25 witness: a task that is no draft was given the status Draft (0), a task
\* that is Completed (3) is stored, and the update succeeded
C25_Witness ==
  /\ last.op = "updateTask" /\ last.err = "ok"
  /\ ~last.wasDraft
  /\ last.params.status = Some(StatusDraft)
  /\ TaskOf(last.params.idTask).status = StatusDraft
  /\ \E r \in TaskRows : r.status = 3

\* getTask of that identifier succeeds and answers the task of that identifier
Retrievable(idTask, idAccount) ==
  /\ (IF layer = "app"
      THEN taskGet([idTask |-> idTask, idAccount |-> idAccount], tasks, attachments)
      ELSE spTaskGet([idTask |-> idTask, idAccount |-> idAccount], CurrentDb)).err = "ok"
  /\ GetView(idTask, idAccount).idTask = idTask

AttachmentIds ==
  IF layer = "app"
  THEN [i \in 1..Len(attachments) |-> attachments[i].idTaskAttachment]
  ELSE LET RECURSIVE Ids(_)
           Ids(S) == IF S = {} THEN <<>>
                     ELSE LET r == CHOOSE x \in S : TRUE
                          IN Append(Ids(S \ {r}), r.idTaskAttachment)
       IN Ids(taskAttachment)

\* C28: whatever createAttachment and deleteAttachment calls came before, no
\* two stored attachments have the same identifier.
C28_AttachmentIdsDistinct ==
  \A i, j \in DOMAIN AttachmentIds : i # j => AttachmentIds[i] # AttachmentIds[j]

\* r2 is r with at most its deleted flag and its modification timestamp changed
SameButDeletion(r, r2) ==
  [r2 EXCEPT !.deleted = r.deleted, !.dateModified = r.dateModified] = r

\* C29: a successful deleteTask leaves every attachment as it was, and every
\* task and subtask row too, but for the deleted flag and the modification
\* timestamp of the task named and of its subtasks; a deleteAttachment that
\* names a stored attachment by identifier, task and account succeeds also when
\* the task is soft-deleted, and a createAttachment on a soft-deleted task fails
\* with taskNotFound.
C29_DeleteTouchesNoAttachment ==
  [][ /\ (last'.op = "deleteTask" /\ last'.err = "ok" /\ now' = now)
         => /\ UNCHANGED <<attachments, taskAttachment>>
            /\ TaskTotal' = TaskTotal
            /\ Cardinality(subtask') = Cardinality(subtask)
            /\ \A r \in TaskRows : \E r2 \in TaskRows' :
                 /\ r2.idTask = r.idTask
                 /\ IF r.idTask = last'.params.idTask
                    THEN SameButDeletion(r, r2) /\ r2.deleted
                    ELSE r2 = r
            /\ \A r \in subtask : \E r2 \in subtask' :
                 /\ r2.idSubtask = r.idSubtask
                 /\ IF r.idTask = last'.params.idTask
                    THEN SameButDeletion(r, r2) /\ r2.deleted
                    ELSE r2 = r
      /\ (last'.op = "deleteAttachment" /\ now' = now /\ Matching(last'.params) > 0)
         => last'.err = "ok"
      /\ (/\ last'.op = "createAttachment" /\ now' = now
          /\ \E r \in TaskRows : r.idTask = last'.params.idTask /\ r.deleted)
         => last'.err = "taskNotFound"
    ]_vars

\* C29 witness: the attachment of a task that is soft-deleted has just been
\* deleted (it was created before the task was deleted and outlived deleteTask)
C29_Witness ==
  /\ last.op = "deleteAttachment" /\ last.err = "ok"
  /\ HasTask(last.params.idTask)
  /\ TaskOf(last.params.idTask).deleted
  /\ TaskOf(last.params.idTask).idAccount = last.params.idAccount

\* The fields of a task that tell of its recurrence, in either implementation
RecurrenceFields ==
  {"recurrenceType", "recurrenceInterval", "recurrenceEndDate", "isRecurring", "recurrenceConfig"}

\* The request gives a value for that field of the task
Supplied(p, f) ==
  IF f \in RecurrenceFields
  THEN "recurrenceConfig" \in DOMAIN p /\ p.recurrenceConfig # Undefined
  ELSE f \in DOMAIN p /\ p[f] # Undefined

\* C30: a successful updateTask leaves every attachment, every subtask and
\* every other task as they were, and in the task it names every field keeps
\* its value but for the modification timestamp, the fields the request gives
\* (title, description, dueDate, priority, status, isDraft, recurrence) and the
\* status set to Pending when the task leaves draft; identifier, account,
\* owner, creation timestamp and deleted flag are never among the changed.
C30_OnlyGivenFieldsChange ==
  [][ (last'.op = "updateTask" /\ last'.err = "ok" /\ now' = now)
      => /\ UNCHANGED <<attachments, taskAttachment, subtask>>
         /\ TaskTotal' = TaskTotal
         /\ \A r \in TaskRows : \E r2 \in TaskRows' :
              /\ r2.idTask = r.idTask
              /\ IF r.idTask = last'.params.idTask
                 THEN \A f \in DOMAIN r :
                        \/ r2[f] = r[f]
                        \/ f = "dateModified"
                        \/ f \in KeepFields \cup RecurrenceFields /\ Supplied(last'.params, f)
                        \/ /\ f = "status"
                           /\ r.isDraft /\ last'.params.isDraft = Some(FALSE)
                           /\ r2.status = StatusPending
                 ELSE r2 = r
    ]_vars

\* C30 witness: an update that gave the priority alone succeeded later than the
\* task was created, on a task whose title and description earlier updates had
\* set, with a second task stored
C30_Witness ==
  /\ last.op = "updateTask" /\ last.err = "ok"
  /\ \A f \in KeepFields : Supplied(last.params, f) <=> f = "priority"
  /\ ~Supplied(last.params, "recurrenceConfig")
  /\ TaskTotal = Cardinality(KeepTaskIds)
  /\ LET r == TaskOf(last.params.idTask) IN
     /\ r.title = TitleOther
     /\ r.description = Some(1)
     /\ r.priority = 2
     /\ r.dateCreated < r.dateModified

====
